---- MODULE Spec2Model ----
(***************************************************************************)
(* MindMark learning core: quiz submission, revision scheduling and the    *)
(* due / weakest queries, modelled from the backend sources.               *)
(*                                                                         *)
(* Time is counted in whole hours since local midnight of day 0.  A score  *)
(* is a percentage multiplied by ScoreUnit, so that every quotient         *)
(* 100 * correct / total with total <= MaxAnswers is an exact integer.     *)
(* Text is a sequence of one-character strings.                            *)
(***************************************************************************)
EXTENDS Integers, Sequences, FiniteSets, TLC

VARIABLES now, bookmarks, questions, attempts, userAnswers, req, out, served

vars == <<now, bookmarks, questions, attempts, userAnswers, req, out, served>>

store == <<bookmarks, questions, attempts, userAnswers>>

(***************************************************************************)
(* Bounds of the model.                                                    *)
(***************************************************************************)
MaxBookmarks == 2
MaxQuestions == 2
MaxSubmissions == 2
MaxAnswers == 2
MaxTicks == 1
TickHours == 8
MaxStored == 4

(***************************************************************************)
(* Program constants.                                                      *)
(***************************************************************************)
HighScore == 80
MidScore == 50
DaysHigh == 5
DaysMid == 3
DaysLow == 1
ReviewHour == 9
HoursPerDay == 24
RecentAttempts == 3
RouteRecentAttempts == 5

\* null in a DateTime? column: no instant is negative.
Null == -1

RECURSIVE Factorial(_)
Factorial(n) == IF n <= 1 THEN 1 ELSE n * Factorial(n - 1)

ScoreUnit == Factorial(MaxAnswers)

Min(a, b) == IF a <= b THEN a ELSE b

(***************************************************************************)
(* Text helpers: String.prototype.toLowerCase, trim, split(/\s+/) and      *)
(* includes, as checkAnswer uses them.                                     *)
(***************************************************************************)
UpperChars == <<"A", "B", "C", "D", "E", "F", "G", "H", "I", "J", "K", "L", "M",
                "N", "O", "P", "Q", "R", "S", "T", "U", "V", "W", "X", "Y", "Z">>

LowerChars == <<"a", "b", "c", "d", "e", "f", "g", "h", "i", "j", "k", "l", "m",
                "n", "o", "p", "q", "r", "s", "t", "u", "v", "w", "x", "y", "z">>

IsSpace(c) == c \in {" ", "\t", "\n"}

LowerChar(c) ==
    IF \E i \in DOMAIN UpperChars : UpperChars[i] = c
    THEN LowerChars[CHOOSE i \in DOMAIN UpperChars : UpperChars[i] = c]
    ELSE c

toLowerCase(s) == [i \in DOMAIN s |-> LowerChar(s[i])]

RECURSIVE trimStart(_)
trimStart(s) ==
    IF s # <<>> /\ IsSpace(Head(s)) THEN trimStart(Tail(s)) ELSE s

RECURSIVE trimEnd(_)
trimEnd(s) ==
    IF s # <<>> /\ IsSpace(s[Len(s)]) THEN trimEnd(SubSeq(s, 1, Len(s) - 1)) ELSE s

\* Only the leading whitespace removed.
trimStartOnly(s) == trimStart(s)

trim(s) == trimEnd(trimStart(s))

\* split(/\s+/): the pieces between maximal runs of whitespace; a leading or
\* trailing run yields an empty piece, and the empty text yields <<"">>.
RECURSIVE splitFrom(_, _, _)
splitFrom(s, i, cur) ==
    IF i > Len(s) THEN <<cur>>
    ELSE IF IsSpace(s[i])
         THEN IF i > 1 /\ IsSpace(s[i - 1])
              THEN splitFrom(s, i + 1, cur)
              ELSE <<cur>> \o splitFrom(s, i + 1, <<>>)
         ELSE splitFrom(s, i + 1, Append(cur, s[i]))

splitWhitespace(s) == splitFrom(s, 1, <<>>)

\* a.includes(b): b occurs in a as a contiguous run (the empty text always does).
includes(a, b) ==
    \E i \in 1..(Len(a) + 1) :
        /\ i + Len(b) - 1 <= Len(a)
        /\ \A j \in 1..Len(b) : a[i + j - 1] = b[j]

\* The key terms that occur inside some word of the submitted answer.
matchCountOneWay(correctWords, selectedWords) ==
    Cardinality({i \in DOMAIN correctWords :
        \E k \in DOMAIN selectedWords :
            includes(selectedWords[k], correctWords[i])})

(***************************************************************************)
(* checkAnswer(question, selectedAnswer).  A quotient 0 / 0 is NaN in the  *)
(* program and NaN >= 0.5 is false.                                        *)
(***************************************************************************)
matchCount(correctWords, selectedWords) ==
    Cardinality({i \in DOMAIN correctWords :
        \E k \in DOMAIN selectedWords :
            \/ includes(selectedWords[k], correctWords[i])
            \/ includes(correctWords[i], selectedWords[k])})

LongerThan3(w) == Len(w) > 3

checkAnswer(question, selectedAnswer) ==
    LET correct == trim(toLowerCase(question.correctAnswer))
        selected == trim(toLowerCase(selectedAnswer))
        correctWords == SelectSeq(splitWhitespace(correct), LongerThan3)
        selectedWords == splitWhitespace(selected)
    IN  IF question.type = "mcq" THEN correct = selected
        ELSE IF question.type \in {"short", "scenario"}
             THEN /\ Len(correctWords) > 0
                  /\ 2 * matchCount(correctWords, selectedWords) >= Len(correctWords)
        ELSE IF question.type = "flashcard"
             THEN \/ includes(correct, selected)
                  \/ includes(selected, correct)
                  \/ correct = selected
        ELSE FALSE

(***************************************************************************)
(* calculateNextReviewDate(score), with the clock reading made explicit:   *)
(* the calendar day of t plus daysToAdd, at 09:00.                         *)
(***************************************************************************)
DayOf(t) == t \div HoursPerDay

HourOf(t) == t % HoursPerDay

\* The tiers with the boundaries 80 and 50 in the shorter interval.
daysToAddExclusive(score) ==
    IF score > HighScore * ScoreUnit THEN DaysHigh
    ELSE IF score > MidScore * ScoreUnit THEN DaysMid
    ELSE DaysLow

daysToAdd(score) ==
    IF score >= HighScore * ScoreUnit THEN DaysHigh
    ELSE IF score >= MidScore * ScoreUnit THEN DaysMid
    ELSE DaysLow

calculateNextReviewDate(score, t) ==
    (DayOf(t) + daysToAdd(score)) * HoursPerDay + ReviewHour

\* (correctCount / totalQuestions) * 100, 0 when nothing was scored.
Score(correctCount, totalQuestions) ==
    IF totalQuestions > 0
    THEN (correctCount * 100 * ScoreUnit) \div totalQuestions
    ELSE 0

\* Math.round(score * 100) / 100, in hundredths of a percent.
Round2(score) == (2 * 100 * score + ScoreUnit) \div (2 * ScoreUnit)

(***************************************************************************)
(* The content store.  A bookmark's id is its index in bookmarks, a        *)
(* question's its index in questions, an attempt's its index in attempts;  *)
(* attempts and userAnswers are in creation order, which is the order of   *)
(* attemptedAt.                                                            *)
(***************************************************************************)
BookmarkIds == 1..MaxBookmarks

QuestionIds == 1..MaxQuestions

Procs == {1, 2}

Str_Paris == <<"P", "a", "r", "i", "s">>

QuestionPool == {[type |-> "mcq", correctAnswer |-> Str_Paris]}

Str_Rome == <<"R", "o", "m", "e">>

AnswerPool == {<<" ", "p", "a", "r", "i", "s", " ">>, Str_Rome}

AnswerInputs == [questionId : QuestionIds, selectedAnswer : AnswerPool]

RECURSIVE SeqsUpTo(_, _)
SeqsUpTo(S, n) ==
    IF n = 0 THEN {<<>>}
    ELSE LET shorter == SeqsUpTo(S, n - 1)
         IN  shorter \cup {Append(s, x) : s \in {t \in shorter : Len(t) = n - 1}, x \in S}

\* The submitted answer arrays: at most MaxAnswers answers, one per question,
\* in question order.
AnswerArrays ==
    {s \in SeqsUpTo(AnswerInputs, MaxAnswers) :
        \A i, j \in DOMAIN s : i < j => s[i].questionId < s[j].questionId}

bookmarkExists(b) == b \in DOMAIN bookmarks

questionExists(q) == q \in DOMAIN questions /\ questions[q].exists

attemptsOf(b) == SelectSeq(attempts, LAMBDA a : a.bookmarkId = b)

attemptIdsOf(b) == {i \in DOMAIN attempts : attempts[i].bookmarkId = b}

answersOf(attemptId) == SelectSeq(userAnswers, LAMBDA u : u.attemptId = attemptId)

IdleReq ==
    [pc |-> "idle", kind |-> "none", bookmarkId |-> 0, submitted |-> 0, idx |-> 0,
     results |-> <<>>, correctCount |-> 0, scored |-> <<>>, attemptId |-> 0,
     resp |-> [status |-> 0]]

\* A finished request and the result of a read are handed over before
\* anything else runs; neither is read by any other step.
NothingToDeliver ==
    /\ out.op = "none"
    /\ \A p \in Procs : req[p].pc \notin {"done", "failed"}

Init ==
    /\ now = ReviewHour
    /\ bookmarks = <<>>
    /\ questions = <<>>
    /\ attempts = <<>>
    /\ userAnswers = <<>>
    /\ req = [p \in Procs |-> IdleReq]
    /\ out = [op |-> "none"]
    /\ served = 0

\* The clock advances between any two steps.
Tick ==
    /\ NothingToDeliver
    /\ now < ReviewHour + MaxTicks * TickHours
    /\ now' = now + TickHours
    /\ UNCHANGED <<store, req, out, served>>

\* POST /api/bookmarks: the schedule fields are not set, so they are null.
CreateBookmark ==
    /\ NothingToDeliver
    /\ Len(bookmarks) < MaxBookmarks
    /\ bookmarks' = Append(bookmarks,
           [lastReviewedAt |-> Null, nextReviewAt |-> Null,
            createdAt |-> Len(bookmarks) + 1])
    /\ UNCHANGED <<now, questions, attempts, userAnswers, req, out, served>>

\* One prisma.question.create of the question-generation routes.
CreateQuestion(b, q) ==
    /\ NothingToDeliver
    /\ bookmarkExists(b)
    /\ Len(questions) < MaxQuestions
    /\ questions' = Append(questions,
           [bookmarkId |-> b, type |-> q.type, correctAnswer |-> q.correctAnswer,
            exists |-> TRUE])
    /\ UNCHANGED <<now, bookmarks, attempts, userAnswers, req, out, served>>

\* prisma.question.deleteMany({ where: { bookmarkId } }) of POST /regenerate.
DeleteQuestions(b) ==
    /\ NothingToDeliver
    /\ bookmarkExists(b)
    /\ \E q \in DOMAIN questions : questions[q].bookmarkId = b /\ questions[q].exists
    /\ questions' = [q \in DOMAIN questions |->
           IF questions[q].bookmarkId = b
           THEN [questions[q] EXCEPT !.exists = FALSE]
           ELSE questions[q]]
    /\ UNCHANGED <<now, bookmarks, attempts, userAnswers, req, out, served>>

\* An update that writes the next review date and leaves lastReviewedAt.
updateNextReviewOnly(bookmarkId, score) ==
    [bookmarks EXCEPT ![bookmarkId] =
        [@ EXCEPT !.nextReviewAt = calculateNextReviewDate(score, now)]]

(***************************************************************************)
(* updateRevisionSchedule(bookmarkId, score): one prisma.bookmark.update.  *)
(***************************************************************************)
updateRevisionSchedule(bookmarkId, score) ==
    [bookmarks EXCEPT ![bookmarkId] =
        [@ EXCEPT !.lastReviewedAt = now,
                  !.nextReviewAt = calculateNextReviewDate(score, now)]]

(***************************************************************************)
(* The scoring loop shared by the two submit handlers: every answer whose  *)
(* question is found is checked and pushed to results, the others are      *)
(* passed over.  The loop only reads the question table and is taken as    *)
(* one step.                                                               *)
(***************************************************************************)
RECURSIVE scoreAnswers(_)
scoreAnswers(answers) ==
    IF answers = <<>> THEN <<>>
    ELSE LET answer == Head(answers)
         IN  IF questionExists(answer.questionId)
             THEN <<[questionId |-> answer.questionId,
                     selectedAnswer |-> answer.selectedAnswer,
                     isCorrect |-> checkAnswer(questions[answer.questionId],
                                               answer.selectedAnswer)]>>
                  \o scoreAnswers(Tail(answers))
             ELSE scoreAnswers(Tail(answers))

countCorrect(results) == Cardinality({i \in DOMAIN results : results[i].isCorrect})

(***************************************************************************)
(* POST /api/quiz/submit.  The handler runs from one awaited store write   *)
(* to the next in one step; other requests may run between two steps.      *)
(***************************************************************************)
InFlight(p) == req[p].pc \in {"attempt", "answers", "schedule"}

\* submitQuizSchema.parse, prisma.bookmark.findUnique and the scoring loop.
SubmitStart(p, b, ans) ==
    /\ NothingToDeliver
    /\ req[p].pc = "idle"
    /\ served < MaxSubmissions
    /\ served' = served + 1
    /\ req' = [req EXCEPT ![p] =
           IF ~bookmarkExists(b)
           THEN [IdleReq EXCEPT !.pc = "done", !.kind = "quiz", !.bookmarkId = b,
                                !.submitted = Len(ans), !.resp = [status |-> 404]]
           ELSE [IdleReq EXCEPT !.pc = "attempt", !.kind = "quiz", !.bookmarkId = b,
                                !.submitted = Len(ans),
                                !.results = scoreAnswers(ans),
                                !.correctCount = countCorrect(scoreAnswers(ans))]]
    /\ UNCHANGED <<now, store, out>>

\* prisma.quizAttempt.create.
SubmitCreateAttempt(p) ==
    LET r == req[p]
        totalQuestions == Len(r.results)
        score == Score(r.correctCount, totalQuestions)
    IN  /\ NothingToDeliver
        /\ r.kind = "quiz"
        /\ r.pc = "attempt"
        /\ attempts' = Append(attempts,
               [bookmarkId |-> r.bookmarkId, score |-> score,
                totalQuestions |-> totalQuestions, attemptedAt |-> now])
        /\ req' = [req EXCEPT ![p] =
               [r EXCEPT !.attemptId = Len(attempts) + 1,
                         !.idx = 1,
                         !.pc = IF r.results = <<>> THEN "schedule" ELSE "answers"]]
        /\ UNCHANGED <<now, bookmarks, questions, userAnswers, out, served>>

\* One prisma.userAnswer.create.
SubmitCreateAnswer(p) ==
    LET r == req[p]
        result == r.results[r.idx]
    IN  /\ NothingToDeliver
        /\ r.kind = "quiz"
        /\ r.pc = "answers"
        /\ userAnswers' = Append(userAnswers,
               [attemptId |-> r.attemptId, questionId |-> result.questionId,
                selectedAnswer |-> result.selectedAnswer,
                isCorrect |-> result.isCorrect])
        /\ req' = [req EXCEPT ![p] =
               [r EXCEPT !.idx = @ + 1,
                         !.pc = IF r.idx = Len(r.results) THEN "schedule" ELSE "answers"]]
        /\ UNCHANGED <<now, bookmarks, questions, attempts, out, served>>

\* updateRevisionSchedule and res.json.
SubmitSchedule(p) ==
    LET r == req[p]
        totalQuestions == Len(r.results)
        score == Score(r.correctCount, totalQuestions)
    IN  /\ NothingToDeliver
        /\ r.kind = "quiz"
        /\ r.pc = "schedule"
        /\ bookmarks' = updateRevisionSchedule(r.bookmarkId, score)
        /\ req' = [req EXCEPT ![p] =
               [IdleReq EXCEPT !.pc = "done", !.kind = "quiz",
                               !.bookmarkId = r.bookmarkId,
                               !.submitted = r.submitted,
                               !.attemptId = r.attemptId,
                               !.resp = [status |-> 200,
                                         attemptId |-> r.attemptId,
                                         score |-> Round2(score),
                                         correct |-> r.correctCount,
                                         total |-> totalQuestions,
                                         results |-> r.results,
                                         nextReviewAt |->
                                             calculateNextReviewDate(score, now)]]]
        /\ UNCHANGED <<now, questions, attempts, userAnswers, out, served>>

\* An awaited store call rejects: the catch block passes the error on and
\* nothing already written is undone.
RequestFail(p) ==
    /\ NothingToDeliver
    /\ InFlight(p)
    /\ req' = [req EXCEPT ![p] =
           [IdleReq EXCEPT !.pc = "failed", !.kind = req[p].kind,
                           !.bookmarkId = req[p].bookmarkId,
                           !.submitted = req[p].submitted,
                           !.attemptId = req[p].attemptId,
                           !.resp = [status |-> 500]]]
    /\ UNCHANGED <<now, store, out, served>>

(***************************************************************************)
(* POST /api/quiz/daily-review/submit.                                     *)
(***************************************************************************)
\* bookmarkScores with every answer counted as correct.
trackScoreAllCorrect(scored, b, isCorrect) ==
    IF \E i \in DOMAIN scored : scored[i].bookmarkId = b
    THEN [i \in DOMAIN scored |->
             IF scored[i].bookmarkId = b
             THEN [scored[i] EXCEPT !.total = @ + 1, !.correct = @ + 1]
             ELSE scored[i]]
    ELSE Append(scored, [bookmarkId |-> b, total |-> 1, correct |-> 1])

\* bookmarkScores after one more answer for bookmark b; the keys keep their
\* insertion order.
trackScore(scored, b, isCorrect) ==
    IF \E i \in DOMAIN scored : scored[i].bookmarkId = b
    THEN [i \in DOMAIN scored |->
             IF scored[i].bookmarkId = b
             THEN [scored[i] EXCEPT !.total = @ + 1,
                                    !.correct = IF isCorrect THEN @ + 1 ELSE @]
             ELSE scored[i]]
    ELSE Append(scored, [bookmarkId |-> b, total |-> 1,
                         correct |-> IF isCorrect THEN 1 ELSE 0])

RECURSIVE bookmarkScores(_, _)
bookmarkScores(results, scored) ==
    IF results = <<>> THEN scored
    ELSE bookmarkScores(Tail(results),
             trackScore(scored, questions[Head(results).questionId].bookmarkId,
                        Head(results).isCorrect))

dailyResponse(r) ==
    [status |-> 200,
     score |-> Round2(Score(r.correctCount, Len(r.results))),
     correct |-> r.correctCount,
     total |-> Len(r.results),
     results |-> r.results,
     bookmarksReviewed |-> Len(r.scored)]

dailyDone(r) ==
    [IdleReq EXCEPT !.pc = "done", !.kind = "daily", !.submitted = r.submitted,
                    !.resp = dailyResponse(r)]

\* submitDailyQuizSchema.parse and the scoring loop.
DailyStart(p, ans) ==
    /\ NothingToDeliver
    /\ req[p].pc = "idle"
    /\ served < MaxSubmissions
    /\ served' = served + 1
    /\ req' = [req EXCEPT ![p] =
           LET results == scoreAnswers(ans)
               r == [IdleReq EXCEPT !.pc = "schedule", !.kind = "daily",
                                    !.submitted = Len(ans),
                                    !.results = results,
                                    !.correctCount = countCorrect(results),
                                    !.scored = bookmarkScores(results, <<>>),
                                    !.idx = 1]
           IN  IF r.scored = <<>> THEN dailyDone(r) ELSE r]
    /\ UNCHANGED <<now, store, out>>

\* One updateRevisionSchedule of the per-bookmark loop.
DailySchedule(p) ==
    LET r == req[p]
        scores == r.scored[r.idx]
        bookmarkScore == Score(scores.correct, scores.total)
    IN  /\ NothingToDeliver
        /\ r.kind = "daily"
        /\ r.pc = "schedule"
        /\ bookmarks' = updateRevisionSchedule(scores.bookmarkId, bookmarkScore)
        /\ req' = [req EXCEPT ![p] =
               IF r.idx < Len(r.scored) THEN [r EXCEPT !.idx = @ + 1]
               ELSE dailyDone(r)]
        /\ UNCHANGED <<now, questions, attempts, userAnswers, out, served>>

(***************************************************************************)
(* getBookmarkAnalytics(bookmarkId): one findUnique that includes the      *)
(* bookmark's attempts, oldest first, each with its userAnswers.           *)
(***************************************************************************)
quizAttemptsAsc(b) ==
    LET ids == attemptIdsOf(b)
        nth(k) == CHOOSE i \in ids : Cardinality({j \in ids : j < i}) = k - 1
    IN  [k \in 1..Cardinality(ids) |->
            [id |-> nth(k),
             score |-> attempts[nth(k)].score,
             totalQuestions |-> attempts[nth(k)].totalQuestions,
             attemptedAt |-> attempts[nth(k)].attemptedAt,
             userAnswers |-> answersOf(nth(k))]]

\* attempts.map(a => ({ date, score, timeTaken })) of the attempts most
\* recent first.
scoreProgressionDesc(b) ==
    LET desc == [k \in DOMAIN quizAttemptsAsc(b) |->
                    quizAttemptsAsc(b)[Len(quizAttemptsAsc(b)) + 1 - k]]
    IN  [k \in DOMAIN desc |->
            [id |-> desc[k].id, date |-> desc[k].attemptedAt, score |-> desc[k].score]]

\* attempts.map(a => ({ date, score, timeTaken })) of the attempts ordered
\* by attemptedAt asc; timeTaken is not modelled and the attempt's id is kept
\* to tell the entries apart.
scoreProgression(b) ==
    [k \in DOMAIN quizAttemptsAsc(b) |->
        [id |-> quizAttemptsAsc(b)[k].id,
         date |-> quizAttemptsAsc(b)[k].attemptedAt,
         score |-> quizAttemptsAsc(b)[k].score]]

ReadBookmarkAnalytics(b) ==
    /\ NothingToDeliver
    /\ bookmarkExists(b)
    /\ out' = [op |-> "bookmarkAnalytics", bookmarkId |-> b,
               quizAttempts |-> quizAttemptsAsc(b),
               totalAttempts |-> Len(quizAttemptsAsc(b)),
               scoreProgression |-> scoreProgression(b)]
    /\ UNCHANGED <<now, store, req, served>>

\* res.json / next(error) has been delivered: the request is over.
Respond(p) ==
    /\ req[p].pc \in {"done", "failed"}
    /\ req' = [req EXCEPT ![p] = IdleReq]
    /\ UNCHANGED <<now, store, out, served>>

ReadReturn ==
    /\ out.op # "none"
    /\ out' = [op |-> "none"]
    /\ UNCHANGED <<now, store, req, served>>

(***************************************************************************)
(* The application served one request at a time: every handler step, the   *)
(* content routes, the clock and the analytics read, with the requests of  *)
(* one client that waits for each response.                                *)
(***************************************************************************)
Serial == {1}

Next ==
    \/ \E p \in Serial : Respond(p)
    \/ ReadReturn
    \/ Tick
    \/ CreateBookmark
    \/ \E b \in BookmarkIds, q \in QuestionPool : CreateQuestion(b, q)
    \/ \E b \in BookmarkIds : DeleteQuestions(b)
    \/ \E p \in Serial, b \in BookmarkIds, ans \in AnswerArrays : SubmitStart(p, b, ans)
    \/ \E p \in Serial : SubmitCreateAttempt(p)
    \/ \E p \in Serial : SubmitCreateAnswer(p)
    \/ \E p \in Serial : SubmitSchedule(p)
    \/ \E p \in Serial : RequestFail(p)
    \/ \E p \in Serial, ans \in AnswerArrays : DailyStart(p, ans)
    \/ \E p \in Serial : DailySchedule(p)
    \/ \E b \in BookmarkIds : ReadBookmarkAnalytics(b)

Spec == Init /\ [][Next]_vars

(***************************************************************************)
(* Two clients submitting quizzes at the same time: the steps of the two   *)
(* requests interleave in every order; no store call fails.                *)
(***************************************************************************)
NextRace ==
    \/ \E p \in Procs : Respond(p)
    \/ Tick
    \/ CreateBookmark
    \/ \E b \in BookmarkIds, q \in QuestionPool : CreateQuestion(b, q)
    \/ \E p \in Procs, b \in BookmarkIds, ans \in AnswerArrays : SubmitStart(p, b, ans)
    \/ \E p \in Procs : SubmitCreateAttempt(p)
    \/ \E p \in Procs : SubmitCreateAnswer(p)
    \/ \E p \in Procs : SubmitSchedule(p)

SpecRace == Init /\ [][NextRace]_vars

(***************************************************************************)
(* Properties of the schedule and of the stored attempts.                  *)
(***************************************************************************)
Quiescent == \A p \in Procs : req[p].pc = "idle"

latestAttempt(b) == attemptsOf(b)[Len(attemptsOf(b))]

\* The schedule of bookmark b is the scheduler rule applied to the score of
\* its most recent attempt, and null when it has none.
ScheduleFollowsLatest(b) ==
    IF attemptsOf(b) = <<>>
    THEN bookmarks[b].nextReviewAt = Null
    ELSE /\ bookmarks[b].nextReviewAt # Null
         /\ bookmarks[b].lastReviewedAt # Null
         /\ bookmarks[b].nextReviewAt =
                calculateNextReviewDate(latestAttempt(b).score,
                                        bookmarks[b].lastReviewedAt)

\* C1: whenever no request is in progress, every bookmark's nextReviewAt is
\* null if the bookmark has no QuizAttempt and is otherwise the scheduler rule
\* applied to the score of its most recent QuizAttempt.
C1_ScheduleIsRuleOfLatestAttempt ==
    Quiescent => \A b \in DOMAIN bookmarks : ScheduleFollowsLatest(b)

correctAnswersOf(attemptId) ==
    Cardinality({i \in DOMAIN userAnswers :
        userAnswers[i].attemptId = attemptId /\ userAnswers[i].isCorrect})

AttemptMatchesAnswers(attemptId) ==
    LET a == attempts[attemptId]
    IN  /\ a.totalQuestions = Len(answersOf(attemptId))
        /\ a.score * a.totalQuestions = 100 * ScoreUnit * correctAnswersOf(attemptId)

\* C3: whenever no request is in progress, every stored QuizAttempt has
\* totalQuestions equal to the number of its UserAnswer rows and score equal
\* to 100 x (its correct UserAnswers) / totalQuestions.
C3_AttemptMatchesItsAnswers ==
    Quiescent => \A i \in DOMAIN attempts : AttemptMatchesAnswers(i)

\* C4: a quiz submission that has failed after recording its QuizAttempt
\* leaves the bookmark's schedule updated for that attempt, not in its
\* pre-attempt state.
C4_FailureKeepsAttemptAndScheduleTogether ==
    \A p \in Procs :
        (req[p].kind = "quiz" /\ req[p].pc = "failed" /\ req[p].attemptId # 0) =>
            LET a == attempts[req[p].attemptId]
                bookmark == bookmarks[a.bookmarkId]
            IN  /\ bookmark.lastReviewedAt # Null
                /\ bookmark.lastReviewedAt >= a.attemptedAt
                /\ bookmark.nextReviewAt =
                       calculateNextReviewDate(a.score, bookmark.lastReviewedAt)

\* C5: every QuizAttempt an analytics read sees comes with all of its
\* UserAnswers, as many as its totalQuestions.
C5_ReadSeesNoTornAttempt ==
    out.op = "bookmarkAnalytics" =>
        \A k \in DOMAIN out.quizAttempts :
            Len(out.quizAttempts[k].userAnswers) = out.quizAttempts[k].totalQuestions

\* C6: once two quiz submissions for the same bookmark have both completed,
\* however their steps interleaved, the bookmark's nextReviewAt is the
\* scheduler rule applied to the score of the attempt with the later
\* attemptedAt.
C6_RaceEndsOnLatestAttempt ==
    \A b \in DOMAIN bookmarks :
        (/\ Quiescent
         /\ Len(attemptsOf(b)) = 2
         /\ attemptsOf(b)[1].attemptedAt < attemptsOf(b)[2].attemptedAt) =>
            ScheduleFollowsLatest(b)

\* C7: a quiz submission that names a nonexistent bookmark or carries an
\* empty answer set writes no QuizAttempt and is answered with an error.
C7_BadSubmissionRejectedWithoutWrite ==
    \A p \in Procs :
        (/\ req[p].kind = "quiz"
         /\ req[p].pc # "failed"
         /\ \/ ~bookmarkExists(req[p].bookmarkId)
            \/ req[p].submitted = 0) =>
            /\ req[p].attemptId = 0
            /\ req[p].pc = "done" => req[p].resp.status >= 400

\* C8: a successful quiz submission is scored over the answers whose question
\* exists, and when some answer was skipped because its question no longer
\* exists the result reports how many were skipped.
C8_SkippedAnswersReported ==
    \A p \in Procs :
        (req[p].kind = "quiz" /\ req[p].pc = "done" /\ req[p].resp.status = 200) =>
            /\ req[p].resp.total = Len(req[p].resp.results)
            /\ req[p].resp.correct = countCorrect(req[p].resp.results)
            /\ req[p].resp.score =
                   Round2(Score(req[p].resp.correct, req[p].resp.total))
            /\ req[p].submitted > req[p].resp.total =>
                   /\ "skipped" \in DOMAIN req[p].resp
                   /\ req[p].resp.skipped = req[p].submitted - req[p].resp.total

(***************************************************************************)
(* calculateNextReviewDate on its own: any score, called at any hour of    *)
(* two consecutive days.                                                   *)
(***************************************************************************)
Scores == 0..(100 * ScoreUnit)

CalcInstants == 0..(2 * HoursPerDay - 1)

InitCalc ==
    /\ now \in CalcInstants
    /\ bookmarks = <<>>
    /\ questions = <<>>
    /\ attempts = <<>>
    /\ userAnswers = <<>>
    /\ req = [p \in Procs |-> IdleReq]
    /\ out = [op |-> "none"]
    /\ served = 0

CalculateNextReviewDate(score) ==
    /\ out.op = "none"
    /\ out' = [op |-> "calculateNextReviewDate", score |-> score, at |-> now,
               date |-> calculateNextReviewDate(score, now)]
    /\ UNCHANGED <<now, store, req, served>>

NextCalc ==
    \/ ReadReturn
    \/ \E score \in Scores : CalculateNextReviewDate(score)

SpecCalc == InitCalc /\ [][NextCalc]_vars

\* C2: the date returned for a score is the calendar day of the call plus 5
\* days when score >= 80, plus 3 days when 50 <= score < 80 and plus 1 day
\* when score < 50, always at 09:00, and no lower score evaluated at the same
\* instant gets a later date.
C2_NextReviewDateTiers ==
    out.op = "calculateNextReviewDate" =>
        /\ DayOf(out.date) - DayOf(out.at) =
               IF out.score >= 80 * ScoreUnit THEN 5
               ELSE IF out.score >= 50 * ScoreUnit THEN 3
               ELSE 1
        /\ out.date % 24 = 9
        /\ \A s \in Scores :
               s <= out.score => calculateNextReviewDate(s, out.at) <= out.date

\* A score of exactly 80 submitted in the last hour of a day is scheduled
\* five days later at 09:00.
C2_Witness ==
    /\ out.op = "calculateNextReviewDate"
    /\ out.score = 80 * ScoreUnit
    /\ out.at % 24 = 23
    /\ out.date = (DayOf(out.at) + 5) * 24 + 9

(***************************************************************************)
(* The review queries.                                                     *)
(***************************************************************************)
take(rows, n) == SubSeq(rows, 1, Min(n, Len(rows)))

\* Array.prototype.sort with a comparator, which is stable: rows that compare
\* equal keep their order.
stableSort(rows, before(_, _)) ==
    LET rank(i) == 1 + Cardinality({j \in DOMAIN rows :
                       \/ before(rows[j], rows[i])
                       \/ ~before(rows[i], rows[j]) /\ j < i})
    IN  [k \in DOMAIN rows |-> rows[CHOOSE i \in DOMAIN rows : rank(i) = k]]

bookmarkIdsAsc == [b \in DOMAIN bookmarks |-> b]

\* The where clause with the instant nextReviewAt itself left out.
isDueLate(b) ==
    \/ bookmarks[b].nextReviewAt # Null /\ bookmarks[b].nextReviewAt < now
    \/ bookmarks[b].nextReviewAt = Null /\ bookmarks[b].lastReviewedAt = Null

\* where: nextReviewAt <= now, or nextReviewAt and lastReviewedAt both null.
isDue(b) ==
    \/ bookmarks[b].nextReviewAt # Null /\ bookmarks[b].nextReviewAt <= now
    \/ bookmarks[b].nextReviewAt = Null /\ bookmarks[b].lastReviewedAt = Null

\* orderBy nextReviewAt asc, createdAt asc: PostgreSQL sorts an ascending
\* column with its nulls last.
dueOrder(a, b) ==
    IF bookmarks[a].nextReviewAt = bookmarks[b].nextReviewAt
    THEN bookmarks[a].createdAt < bookmarks[b].createdAt
    ELSE IF bookmarks[a].nextReviewAt = Null THEN FALSE
    ELSE IF bookmarks[b].nextReviewAt = Null THEN TRUE
    ELSE bookmarks[a].nextReviewAt < bookmarks[b].nextReviewAt

getDueBookmarks(limit) ==
    take(stableSort(SelectSeq(bookmarkIdsAsc, isDue), dueOrder), limit)

\* quizAttempts: orderBy attemptedAt desc, take n.
recentAttempts(b, n) ==
    LET all == attemptsOf(b)
    IN  [k \in 1..Min(n, Len(all)) |-> all[Len(all) + 1 - k]]

RECURSIVE sumScores(_)
sumScores(as) == IF as = <<>> THEN 0 ELSE Head(as).score + sumScores(Tail(as))

\* A bookmark with avgRecentScore = scoreSum / attemptCount (0 without
\* attempts) and attemptCount.
scoredBookmark(b) ==
    [id |-> b,
     scoreSum |-> sumScores(recentAttempts(b, RecentAttempts)),
     attemptCount |-> Len(recentAttempts(b, RecentAttempts))]

hasAttempts(row) == row.attemptCount > 0

lowerAvgRecentScore(a, b) ==
    a.scoreSum * b.attemptCount < b.scoreSum * a.attemptCount

\* getWeakestBookmarks(limit); found is the order in which findMany, which has
\* no orderBy, returns the bookmarks.
getWeakestBookmarks(limit, found) ==
    LET scored == [k \in DOMAIN found |-> scoredBookmark(found[k])]
    IN  take(stableSort(SelectSeq(scored, hasAttempts), lowerAvgRecentScore), limit)

\* Math.round(avgScore * 100) / 100 of scoreSum / attemptCount, in hundredths.
roundedAverage(scoreSum, attemptCount) ==
    (2 * 100 * scoreSum + attemptCount * ScoreUnit) \div (2 * attemptCount * ScoreUnit)

\* A row of GET /api/analytics/weakest; avgScore is null without attempts.
weakestRow(b) ==
    LET recent == recentAttempts(b, RouteRecentAttempts)
    IN  [id |-> b,
         avgScore |-> IF recent = <<>> THEN Null
                      ELSE roundedAverage(sumScores(recent), Len(recent)),
         attemptCount |-> Len(recent)]

hasAvgScore(row) == row.avgScore # Null

lowerAvgScore(a, b) == a.avgScore < b.avgScore

weakestRoute(limit, found) ==
    LET scored == [k \in DOMAIN found |-> weakestRow(found[k])]
    IN  take(stableSort(SelectSeq(scored, hasAvgScore), lowerAvgScore), limit)

(***************************************************************************)
(* The queries over a store with history.  Every bookmark was either never *)
(* reviewed or last reviewed on day 1 at 09:00 with a low, middle or high  *)
(* score, and has up to MaxStored attempts of MaxAnswers answers each; the *)
(* queries run on the day the middle schedule falls due, at 09:00.         *)
(***************************************************************************)
SnapshotReviewedAt == HoursPerDay + ReviewHour

SnapshotNow == calculateNextReviewDate(MidScore * ScoreUnit, SnapshotReviewedAt)

ScheduleOptions ==
    {[lastReviewedAt |-> Null, nextReviewAt |-> Null]} \cup
    {[lastReviewedAt |-> SnapshotReviewedAt,
      nextReviewAt |-> calculateNextReviewDate(score, SnapshotReviewedAt)] :
        score \in {0, MidScore * ScoreUnit, HighScore * ScoreUnit}}

\* The correct counts of a bookmark's attempts, oldest first.
AttemptHistories == SeqsUpTo(0..MaxAnswers, MaxStored)

RECURSIVE storedFrom(_, _)
storedFrom(history, b) ==
    IF b > MaxBookmarks THEN <<>>
    ELSE [k \in DOMAIN history[b] |->
             [bookmarkId |-> b, correctCount |-> history[b][k]]]
         \o storedFrom(history, b + 1)

snapshotAttempts(stored) ==
    [i \in DOMAIN stored |->
        [bookmarkId |-> stored[i].bookmarkId,
         score |-> Score(stored[i].correctCount, MaxAnswers),
         totalQuestions |-> MaxAnswers,
         attemptedAt |-> i]]

snapshotAnswers(stored) ==
    [n \in 1..(Len(stored) * MaxAnswers) |->
        LET i == ((n - 1) \div MaxAnswers) + 1
            q == ((n - 1) % MaxAnswers) + 1
            isCorrect == q <= stored[i].correctCount
        IN  [attemptId |-> i, questionId |-> q,
             selectedAnswer |-> IF isCorrect THEN Str_Paris ELSE Str_Rome,
             isCorrect |-> isCorrect]]

snapshotQuestions ==
    [q \in 1..MaxAnswers |->
        [bookmarkId |-> ((q - 1) % MaxBookmarks) + 1, type |-> "mcq",
         correctAnswer |-> Str_Paris, exists |-> TRUE]]

InitStore ==
    \E schedule \in [BookmarkIds -> ScheduleOptions],
       history \in [BookmarkIds -> AttemptHistories] :
        /\ now = SnapshotNow
        /\ bookmarks = [b \in BookmarkIds |->
               [lastReviewedAt |-> schedule[b].lastReviewedAt,
                nextReviewAt |-> schedule[b].nextReviewAt,
                createdAt |-> b]]
        /\ questions = snapshotQuestions
        /\ attempts = snapshotAttempts(storedFrom(history, 1))
        /\ userAnswers = snapshotAnswers(storedFrom(history, 1))
        /\ req = [p \in Procs |-> IdleReq]
        /\ out = [op |-> "none"]
        /\ served = 0

Limits == 1..MaxBookmarks

\* The orders in which a findMany without orderBy may return the bookmarks.
FoundOrders ==
    {found \in [BookmarkIds -> BookmarkIds] :
        \A i, j \in BookmarkIds : found[i] = found[j] => i = j}

GetDueBookmarks(limit) ==
    /\ out.op = "none"
    /\ out' = [op |-> "getDueBookmarks", limit |-> limit,
               rows |-> getDueBookmarks(limit)]
    /\ UNCHANGED <<now, store, req, served>>

GetWeakestBookmarks(limit, found) ==
    /\ out.op = "none"
    /\ out' = [op |-> "getWeakestBookmarks", limit |-> limit,
               rows |-> getWeakestBookmarks(limit, found)]
    /\ UNCHANGED <<now, store, req, served>>

\* GET /api/analytics/weakest.
GetWeakest(limit, found) ==
    /\ out.op = "none"
    /\ out' = [op |-> "weakest", limit |-> limit,
               rows |-> weakestRoute(limit, found)]
    /\ UNCHANGED <<now, store, req, served>>

NextStore ==
    \/ ReadReturn
    \/ \E limit \in Limits : GetDueBookmarks(limit)
    \/ \E limit \in Limits, found \in FoundOrders : GetWeakestBookmarks(limit, found)
    \/ \E limit \in Limits, found \in FoundOrders : GetWeakest(limit, found)

SpecStore == InitStore /\ [][NextStore]_vars

neverReviewed(b) ==
    bookmarks[b].nextReviewAt = Null /\ bookmarks[b].lastReviewedAt = Null

qualifies(b) ==
    \/ neverReviewed(b)
    \/ bookmarks[b].nextReviewAt # Null /\ bookmarks[b].nextReviewAt <= now

\* Ascending nextReviewAt with null first, ties by ascending creation time.
nullsFirstOrder(a, b) ==
    IF bookmarks[a].nextReviewAt = bookmarks[b].nextReviewAt
    THEN bookmarks[a].createdAt < bookmarks[b].createdAt
    ELSE IF bookmarks[a].nextReviewAt = Null THEN TRUE
    ELSE IF bookmarks[b].nextReviewAt = Null THEN FALSE
    ELSE bookmarks[a].nextReviewAt < bookmarks[b].nextReviewAt

\* C9: dueBookmarks(limit) is the first limit bookmarks of the qualifying
\* ones (nextReviewAt <= now, or never reviewed) sorted by ascending
\* nextReviewAt with null first and ties by ascending creation time, and none
\* of them has a nextReviewAt in the future.
C9_DueBookmarksNullsFirst ==
    out.op = "getDueBookmarks" =>
        /\ out.rows = take(stableSort(SelectSeq(bookmarkIdsAsc, qualifies),
                                      nullsFirstOrder), out.limit)
        /\ \A k \in DOMAIN out.rows :
               \/ bookmarks[out.rows[k]].nextReviewAt = Null
               \/ bookmarks[out.rows[k]].nextReviewAt <= now

\* The average score of bookmark a's 3 most recent attempts is lower than b's.
lowerRecentAverage(a, b) ==
    LET ra == recentAttempts(a, 3)
        rb == recentAttempts(b, 3)
    IN  sumScores(ra) * Len(rb) < sumScores(rb) * Len(ra)

weakestAsSpecified(rows, limit) ==
    /\ Len(rows) <= limit
    /\ \A k \in DOMAIN rows : attemptsOf(rows[k].id) # <<>>
    /\ \A j, k \in DOMAIN rows :
           j < k => rows[j].id # rows[k].id /\ ~lowerRecentAverage(rows[k].id, rows[j].id)
    /\ \A b \in DOMAIN bookmarks :
           (attemptsOf(b) # <<>> /\ \A k \in DOMAIN rows : rows[k].id # b) =>
               /\ Len(rows) = limit
               /\ \A k \in DOMAIN rows : ~lowerRecentAverage(b, rows[k].id)

\* C10: weakestBookmarks(limit) returns at most limit bookmarks, each with at
\* least one attempt, the lowest by the average score of their 3 most recent
\* attempts and in ascending order of it; a bookmark without attempts is not
\* among them, and is among the due bookmarks as long as it was never
\* reviewed.
C10_WeakestByThreeMostRecent ==
    /\ out.op \in {"getWeakestBookmarks", "weakest"} =>
           weakestAsSpecified(out.rows, out.limit)
    /\ \A b \in DOMAIN bookmarks :
           (attemptsOf(b) = <<>> /\ neverReviewed(b)) =>
               \E k \in DOMAIN getDueBookmarks(Len(bookmarks)) :
                   getDueBookmarks(Len(bookmarks))[k] = b

(***************************************************************************)
(* The daily review set.                                                   *)
(***************************************************************************)
DueSetLimit == 5

WeakSetLimit == 3

DailySetSize == 5

IncludedQuestions == 5

questionIdsAsc == [q \in DOMAIN questions |-> q]

\* include questions: take 5, where type = 'mcq'.
mcqQuestionsOf(b) ==
    LET isMcqOf(q) == /\ questions[q].exists
                      /\ questions[q].bookmarkId = b
                      /\ questions[q].type = "mcq"
    IN  take(SelectSeq(questionIdsAsc, isMcqOf), IncludedQuestions)

\* A row of getDueBookmarks carries the included questions; a row of
\* getWeakestBookmarks has no questions property.
dueRow(b) == [id |-> b, hasQuestions |-> TRUE, questions |-> mcqQuestionsOf(b)]

weakRow(b) == [id |-> b, hasQuestions |-> FALSE, questions |-> <<>>]

\* bookmark.questions && bookmark.questions.length > 0
contributesQuestion(row) == row.hasQuestions /\ Len(row.questions) > 0

\* The due rows followed by the weak rows, duplicates included.
combineAll(dueBookmarks, weakBookmarks) ==
    [k \in DOMAIN dueBookmarks |-> dueRow(dueBookmarks[k])]
    \o [k \in DOMAIN weakBookmarks |-> weakRow(weakBookmarks[k].id)]

\* Combine and deduplicate: the due rows, then every weak row whose id is not
\* among the due ids.
combineCandidates(dueBookmarks, weakBookmarks) ==
    LET dueIdsHas(weak) == \E k \in DOMAIN dueBookmarks : dueBookmarks[k] = weak.id
        notInDue(weak) == ~dueIdsHas(weak)
        pushed == SelectSeq(weakBookmarks, notInDue)
    IN  [k \in DOMAIN dueBookmarks |-> dueRow(dueBookmarks[k])]
        \o [k \in DOMAIN pushed |-> weakRow(pushed[k].id)]

\* createDailyReviewSet(); found is the order in which the findMany of
\* getWeakestBookmarks returns the bookmarks.
createDailyReviewSet(found) ==
    LET combined == combineCandidates(getDueBookmarks(DueSetLimit),
                                      getWeakestBookmarks(WeakSetLimit, found))
        selected == SelectSeq(take(combined, DailySetSize), contributesQuestion)
        questionRows == [k \in DOMAIN selected |->
                            [id |-> selected[k].questions[1],
                             bookmarkId |-> selected[k].id]]
    IN  [bookmarks |-> [k \in DOMAIN take(combined, DailySetSize) |-> combined[k].id],
         questions |-> take(questionRows, DailySetSize),
         totalDue |-> Len(combined)]

(***************************************************************************)
(* The daily review set over a store of DailyBookmarks bookmarks.  Each    *)
(* bookmark is in one of four conditions: never reviewed; reviewed on day  *)
(* 1 by a quiz attempt with no correct answer (due again and weak); by a   *)
(* quiz attempt with every answer correct (weak candidate, not yet due);   *)
(* or by a daily review with a high score (scheduled, no attempt).  The    *)
(* questions of the bookmarks follow the cycle QuestionKinds, so that each *)
(* kind of question list meets each condition.                             *)
(***************************************************************************)
DailyBookmarks == 8

DailyBookmarkIds == 1..DailyBookmarks

Conditions == {"never", "low", "high", "daily"}

conditionSchedule(c) ==
    IF c = "never" THEN [lastReviewedAt |-> Null, nextReviewAt |-> Null]
    ELSE [lastReviewedAt |-> SnapshotReviewedAt,
          nextReviewAt |-> calculateNextReviewDate(
              IF c = "low" THEN 0 ELSE 100 * ScoreUnit, SnapshotReviewedAt)]

RECURSIVE conditionAttempts(_, _)
conditionAttempts(condition, b) ==
    IF b > DailyBookmarks THEN <<>>
    ELSE (IF condition[b] \in {"low", "high"}
          THEN <<[bookmarkId |-> b,
                  correctCount |-> IF condition[b] = "low" THEN 0 ELSE MaxAnswers]>>
          ELSE <<>>)
         \o conditionAttempts(condition, b + 1)

QuestionKinds == << <<>>, <<"mcq">>, <<"short">>, <<"short", "mcq">> >>

kindsOf(b) == QuestionKinds[(b % Len(QuestionKinds)) + 1]

RECURSIVE layoutQuestions(_)
layoutQuestions(b) ==
    IF b > DailyBookmarks THEN <<>>
    ELSE [k \in DOMAIN kindsOf(b) |->
             [bookmarkId |-> b, type |-> kindsOf(b)[k],
              correctAnswer |-> Str_Paris, exists |-> TRUE]]
         \o layoutQuestions(b + 1)

InitDaily ==
    \E condition \in [DailyBookmarkIds -> Conditions] :
        /\ now = SnapshotNow
        /\ bookmarks = [b \in DailyBookmarkIds |->
               [lastReviewedAt |-> conditionSchedule(condition[b]).lastReviewedAt,
                nextReviewAt |-> conditionSchedule(condition[b]).nextReviewAt,
                createdAt |-> b]]
        /\ questions = layoutQuestions(1)
        /\ attempts = [i \in DOMAIN conditionAttempts(condition, 1) |->
               [snapshotAttempts(conditionAttempts(condition, 1))[i]
                   EXCEPT !.attemptedAt = SnapshotReviewedAt]]
        /\ userAnswers = snapshotAnswers(conditionAttempts(condition, 1))
        /\ req = [p \in Procs |-> IdleReq]
        /\ out = [op |-> "none"]
        /\ served = 0

\* The bookmark ids in creation order and in reverse creation order.
DailyFoundOrders ==
    {[k \in DailyBookmarkIds |-> k],
     [k \in DailyBookmarkIds |-> DailyBookmarks + 1 - k]}

\* GET /api/quiz/daily-review.
GetDailyReview(found) ==
    /\ out.op = "none"
    /\ LET reviewSet == createDailyReviewSet(found)
       IN  out' = [op |-> "dailyReview",
                   questions |-> reviewSet.questions,
                   totalDue |-> reviewSet.totalDue,
                   bookmarks |-> reviewSet.bookmarks]
    /\ UNCHANGED <<now, store, req, served>>

NextDaily ==
    \/ ReadReturn
    \/ \E found \in DailyFoundOrders : GetDailyReview(found)

SpecDaily == InitDaily /\ [][NextDaily]_vars

inSeq(x, rows) == \E k \in DOMAIN rows : rows[k] = x

\* C11: the bookmarks of the daily review set are at most 5 and pairwise
\* distinct; the entries of dueBookmarks(5) come first, in their dueBookmarks
\* order, every later entry is a bookmark of weakestBookmarks(3) that is not
\* due, and such a bookmark appears only when fewer than 5 bookmarks are due.
C11_DailySetDueFirstNoDuplicates ==
    out.op = "dailyReview" =>
        LET due == getDueBookmarks(DueSetLimit)
            list == out.bookmarks
        IN  /\ Len(list) <= 5
            /\ \A j, k \in DOMAIN list : list[j] = list[k] => j = k
            /\ Len(list) >= Len(due)
            /\ \A k \in DOMAIN list :
                   IF k <= Len(due) THEN list[k] = due[k]
                   ELSE /\ ~qualifies(list[k])
                        /\ attemptsOf(list[k]) # <<>>
                        /\ Cardinality({b \in DOMAIN bookmarks : qualifies(b)}) < 5

\* Four bookmarks are due, one of the three weakest is among them, and the
\* list is the four due bookmarks followed by one weak bookmark, the other
\* weak bookmark being cut.
C11_Witness ==
    /\ out.op = "dailyReview"
    /\ Len(getDueBookmarks(DueSetLimit)) = 4
    /\ Len(out.bookmarks) = 5
    /\ out.totalDue = 6
    /\ ~qualifies(out.bookmarks[5])
    /\ \E b \in DOMAIN bookmarks : qualifies(b) /\ attemptsOf(b) # <<>>

ownedQuestions(b) ==
    {q \in DOMAIN questions : questions[q].exists /\ questions[q].bookmarkId = b}

\* The representative question of a bookmark that owns questions: one of its
\* multiple-choice questions when it has one, otherwise its first question.
isRepresentative(q, b) ==
    /\ q \in ownedQuestions(b)
    /\ IF \E m \in ownedQuestions(b) : questions[m].type = "mcq"
       THEN questions[q].type = "mcq"
       ELSE \A m \in ownedQuestions(b) : q <= m

\* C12: the daily review set holds exactly one question, the representative
\* one, for every listed bookmark that owns a question, whether the bookmark
\* was selected as due or as weak, none for a listed bookmark without
\* questions, and at most 5 questions in all.
C12_OneQuestionPerSelectedBookmark ==
    out.op = "dailyReview" =>
        /\ Len(out.questions) <= 5
        /\ \A k \in DOMAIN out.bookmarks :
               LET b == out.bookmarks[k]
                   picked == {j \in DOMAIN out.questions :
                                 out.questions[j].bookmarkId = b}
               IN  IF ownedQuestions(b) = {} THEN picked = {}
                   ELSE /\ Cardinality(picked) = 1
                        /\ \A j \in picked : isRepresentative(out.questions[j].id, b)

\* The bookmarks that are due or among the 3 weakest, for some order of the
\* weakest among equal averages.
candidateCounts ==
    {Cardinality({b \in DOMAIN bookmarks : qualifies(b)} \cup
                 {getWeakestBookmarks(3, found)[k].id :
                     k \in DOMAIN getWeakestBookmarks(3, found)}) :
        found \in DailyFoundOrders}

\* C13: totalDue is the number of distinct bookmarks that are due or among
\* the 3 weakest, counted before the list is cut to 5 and whether or not
\* they contribute a question; with more than 5 due bookmarks the list is 5
\* due bookmarks.
C13_TotalDueCountsEveryCandidate ==
    out.op = "dailyReview" =>
        /\ out.totalDue \in candidateCounts
        /\ Cardinality({b \in DOMAIN bookmarks : qualifies(b)}) > 5 =>
               /\ Len(out.bookmarks) = 5
               /\ \A k \in DOMAIN out.bookmarks : qualifies(out.bookmarks[k])

(***************************************************************************)
(* The insight engine.  A category's name stands for the category; the     *)
(* bookmarks without category are grouped under Uncategorized.  A finding  *)
(* is its type, priority, category, question type, metric and bookmarks;   *)
(* a metric that is an average is not kept.                                *)
(***************************************************************************)
WeekDays == 7

FortnightDays == 14

WeakCategoryAttempts == 3

WeakCategoryScore == 50

DeclinePoints == 5

DecayAttempts == 5

DecayWindow == 3

DecayPoints == 15

TypeAnswers == 10

TypeRate == 50

ConsistentDays == 5

InconsistentDays == 2

StreakDays == 30

StreakLength == 3

MissedListed == 5

Uncategorized == Null

Reverse(rows) == [k \in DOMAIN rows |-> rows[Len(rows) + 1 - k]]

RECURSIVE sumOf(_)
sumOf(scores) == IF scores = <<>> THEN 0 ELSE Head(scores) + sumOf(Tail(scores))

\* quizAttempt.findMany orderBy attemptedAt desc: the attempt ids, most
\* recent first.
allAttemptsDesc == Reverse([i \in DOMAIN attempts |-> i])

\* attempt.bookmark?.category?.name || 'Uncategorized'
categoryNameOf(attemptId) == bookmarks[attempts[attemptId].bookmarkId].categoryId

scoresOf(ids) == [k \in DOMAIN ids |-> attempts[ids[k]].score]

\* The keys of categoryStats in insertion order: the category names in the
\* order of their first attempt in allAttempts.
RECURSIVE categoryKeys(_, _)
categoryKeys(ids, seen) ==
    IF ids = <<>> THEN <<>>
    ELSE IF categoryNameOf(Head(ids)) \in seen THEN categoryKeys(Tail(ids), seen)
    ELSE <<categoryNameOf(Head(ids))>>
         \o categoryKeys(Tail(ids), seen \cup {categoryNameOf(Head(ids))})

\* categoryStats[name].scores
categoryScores(ids, name) ==
    LET inCategory(i) == categoryNameOf(i) = name
    IN  scoresOf(SelectSeq(ids, inCategory))

finding(type, priority, category, metric) ==
    [type |-> type, priority |-> priority, category |-> category,
     questionType |-> "", metric |-> metric, bookmarks |-> <<>>]

\* 1. Weekly improvement insight.
weeklyInsights ==
    LET inThisWeek(i) == attempts[i].attemptedAt >= now - WeekDays * HoursPerDay
        inLastWeek(i) == /\ attempts[i].attemptedAt >= now - FortnightDays * HoursPerDay
                         /\ attempts[i].attemptedAt < now - WeekDays * HoursPerDay
        thisWeek == scoresOf(SelectSeq(allAttemptsDesc, inThisWeek))
        lastWeek == scoresOf(SelectSeq(allAttemptsDesc, inLastWeek))
        \* improvement * Len(thisWeek) * Len(lastWeek)
        improvement == sumOf(thisWeek) * Len(lastWeek) - sumOf(lastWeek) * Len(thisWeek)
    IN  IF Len(thisWeek) > 0 /\ Len(lastWeek) > 0
        THEN IF improvement > 0
             THEN <<finding("improvement", "positive", Null, Null)>>
             ELSE IF improvement < -(DeclinePoints * ScoreUnit * Len(thisWeek) * Len(lastWeek))
             THEN <<finding("decline", "warning", Null, Null)>>
             ELSE <<>>
        ELSE <<>>

isMissedLate(b) ==
    /\ bookmarks[b].nextReviewAt # Null
    /\ bookmarks[b].nextReviewAt <= now
    /\ (bookmarks[b].lastReviewedAt = Null
        \/ bookmarks[b].lastReviewedAt < bookmarks[b].nextReviewAt)

isMissed(b) ==
    /\ bookmarks[b].nextReviewAt # Null
    /\ bookmarks[b].nextReviewAt < now
    /\ (bookmarks[b].lastReviewedAt = Null
        \/ bookmarks[b].lastReviewedAt < bookmarks[b].nextReviewAt)

\* 2. Missed reviews insight; found is the order in which bookmark.findMany,
\* which has no orderBy, returns the bookmarks.
missedReviews(found) == SelectSeq(found, isMissed)

missedInsights(found) ==
    IF Len(missedReviews(found)) > 0
    THEN <<[finding("missed_reviews", "warning", Null, Len(missedReviews(found)))
               EXCEPT !.bookmarks = take(missedReviews(found), MissedListed)]>>
    ELSE <<>>

isWeakCategoryAny(scores) ==
    sumOf(scores) < WeakCategoryScore * ScoreUnit * Len(scores)

isWeakCategory(scores) ==
    /\ Len(scores) >= WeakCategoryAttempts
    /\ sumOf(scores) < WeakCategoryScore * ScoreUnit * Len(scores)

\* 3. Category weakness insight.
RECURSIVE weakCategoryInsights(_)
weakCategoryInsights(names) ==
    IF names = <<>> THEN <<>>
    ELSE (IF isWeakCategory(categoryScores(allAttemptsDesc, Head(names)))
          THEN <<finding("weak_category", "critical", Head(names), Null)>>
          ELSE <<>>)
         \o weakCategoryInsights(Tail(names))

\* Math.ceil of the days between the first and the last attempt.
daysBetween ==
    LET hours == attempts[allAttemptsDesc[1]].attemptedAt
                 - attempts[allAttemptsDesc[Len(allAttemptsDesc)]].attemptedAt
    IN  (hours + HoursPerDay - 1) \div HoursPerDay

hasDecayed(scores) ==
    /\ Len(scores) >= DecayAttempts
    /\ sumOf(SubSeq(scores, Len(scores) - DecayWindow + 1, Len(scores)))
           - sumOf(SubSeq(scores, 1, DecayWindow))
       > DecayPoints * ScoreUnit * DecayWindow

\* 4. Retention decay insight.
RECURSIVE retentionInsights(_)
retentionInsights(names) ==
    IF names = <<>> THEN <<>>
    ELSE (IF hasDecayed(categoryScores(allAttemptsDesc, Head(names)))
          THEN <<finding("retention_decay", "warning", Head(names), daysBetween)>>
          ELSE <<>>)
         \o retentionInsights(Tail(names))

QuestionTypes == <<"mcq", "short", "scenario", "flashcard">>

\* answer.question?.type || 'mcq'
answerType(u) ==
    IF u.questionId \in DOMAIN questions /\ questions[u.questionId].exists
    THEN questions[u.questionId].type
    ELSE "mcq"

typeTotal(type) ==
    Cardinality({n \in DOMAIN userAnswers : answerType(userAnswers[n]) = type})

typeCorrect(type) ==
    Cardinality({n \in DOMAIN userAnswers :
                    answerType(userAnswers[n]) = type /\ userAnswers[n].isCorrect})

\* 5. Question type weakness insight.
RECURSIVE questionTypeInsights(_)
questionTypeInsights(types) ==
    IF types = <<>> THEN <<>>
    ELSE (IF /\ typeTotal(Head(types)) >= TypeAnswers
             /\ typeCorrect(Head(types)) * 100 < TypeRate * typeTotal(Head(types))
          THEN <<[finding("question_type_weakness", "info", Null, Null)
                     EXCEPT !.questionType = Head(types)]>>
          ELSE <<>>)
         \o questionTypeInsights(Tail(types))

\* 6. Consistency insight.
activeDays ==
    {DayOf(attempts[i].attemptedAt) :
        i \in {j \in DOMAIN attempts :
                  attempts[j].attemptedAt >= now - WeekDays * HoursPerDay}}

consistencyInsights ==
    IF Cardinality(activeDays) >= ConsistentDays
    THEN <<finding("consistency", "positive", Null, Cardinality(activeDays))>>
    ELSE IF Cardinality(activeDays) <= InconsistentDays /\ Len(attempts) > 0
    THEN <<finding("consistency", "warning", Null, Cardinality(activeDays))>>
    ELSE <<>>

hasAttemptOn(day) == \E i \in DOMAIN attempts : DayOf(attempts[i].attemptedAt) = day

\* The days counted by the streak loop from day i back: a day without
\* attempt ends it, except today.
RECURSIVE streakFrom(_)
streakFrom(i) ==
    IF i >= StreakDays THEN 0
    ELSE IF hasAttemptOn(DayOf(now) - i) THEN 1 + streakFrom(i + 1)
    ELSE IF i > 0 THEN 0
    ELSE streakFrom(i + 1)

\* 7. Streak insight.
streakInsights ==
    IF streakFrom(0) >= StreakLength
    THEN <<finding("streak", "positive", Null, streakFrom(0))>>
    ELSE <<>>

reversedPriorityOrder(priority) ==
    CASE priority = "critical" -> 3
      [] priority = "warning" -> 2
      [] priority = "info" -> 1
      [] priority = "positive" -> 0

priorityOrder(priority) ==
    CASE priority = "critical" -> 0
      [] priority = "warning" -> 1
      [] priority = "info" -> 2
      [] priority = "positive" -> 3

\* insights.sort((a, b) => priorityOrder[a.priority] - priorityOrder[b.priority])
byPriority(a, b) == priorityOrder(a.priority) < priorityOrder(b.priority)

\* The findings in the order in which the rules push them.
emittedInsights(found) ==
    weeklyInsights
    \o missedInsights(found)
    \o weakCategoryInsights(categoryKeys(allAttemptsDesc, {}))
    \o retentionInsights(categoryKeys(allAttemptsDesc, {}))
    \o questionTypeInsights(QuestionTypes)
    \o consistencyInsights
    \o streakInsights

generateInsights(found) == stableSort(emittedInsights(found), byPriority)

(***************************************************************************)
(* The categories.  Every id of CategoryIds is a stored category; a        *)
(* bookmark's categoryId is one of them or null.                           *)
(***************************************************************************)
MaxCategories == 2

CategoryIds == 1..MaxCategories

categoryExists(c) == c \in CategoryIds

\* category.bookmarks, in the order found.
bookmarksOfCategory(c, found) ==
    LET inCategory(b) == bookmarks[b].categoryId = c
    IN  SelectSeq(found, inCategory)

\* category.bookmarks.flatMap(b => b.quizAttempts): the attempt ids of the
\* bookmarks in turn, each bookmark's in creation order (the include has no
\* orderBy).
RECURSIVE flatAttempts(_)
flatAttempts(bs) ==
    IF bs = <<>> THEN <<>>
    ELSE LET ofHead(i) == attempts[i].bookmarkId = Head(bs)
         IN  SelectSeq([i \in DOMAIN attempts |-> i], ofHead) \o flatAttempts(Tail(bs))

StrongCategoryScore == 80

TrendAttempts == 5

TrendWindow == 3

TrendPoints == 10

\* getCategoryInsights(categoryId)
getCategoryInsights(categoryId, found) ==
    LET scores == scoresOf(flatAttempts(bookmarksOfCategory(categoryId, found)))
        recentSum == sumOf(SubSeq(scores, 1, TrendWindow))
        olderSum == sumOf(SubSeq(scores, Len(scores) - TrendWindow + 1, Len(scores)))
    IN  IF ~categoryExists(categoryId) THEN <<>>
        ELSE IF Len(scores) = 0
        THEN <<finding("no_data", "info", categoryId, Null)>>
        ELSE (IF sumOf(scores) >= StrongCategoryScore * ScoreUnit * Len(scores)
              THEN <<finding("strong_category", "positive", categoryId, Null)>>
              ELSE IF sumOf(scores) < WeakCategoryScore * ScoreUnit * Len(scores)
              THEN <<finding("weak_category", "critical", categoryId, Null)>>
              ELSE <<>>)
             \o (IF /\ Len(scores) >= TrendAttempts
                    /\ recentSum > olderSum + TrendPoints * ScoreUnit * TrendWindow
                 THEN <<finding("improving", "positive", categoryId, Null)>>
                 ELSE <<>>)

LatestPoints == 10

OverdueDays == 7

WeakQuestionAnswers == 2

\* Math.floor of the days since lastReviewedAt.
daysSinceReview(b) == (now - bookmarks[b].lastReviewedAt) \div HoursPerDay

answersOfBookmark(b) ==
    {n \in DOMAIN userAnswers : userAnswers[n].attemptId \in attemptIdsOf(b)}

isWeakQuestion(b, q) ==
    LET total == Cardinality({n \in answersOfBookmark(b) : userAnswers[n].questionId = q})
        correct == Cardinality({n \in answersOfBookmark(b) :
                                   userAnswers[n].questionId = q /\ userAnswers[n].isCorrect})
    IN  total >= WeakQuestionAnswers /\ 2 * correct < total

weakQuestionCount(b) ==
    Cardinality({q \in {userAnswers[n].questionId : n \in answersOfBookmark(b)} :
                    isWeakQuestion(b, q)})

\* A score trend reported for any difference between the latest score and
\* the average.
scoreTrendAnyChange(scores) ==
    IF scores[1] * Len(scores) > sumOf(scores)
    THEN <<finding("improving", "positive", Null, Null)>>
    ELSE IF scores[1] * Len(scores) < sumOf(scores)
    THEN <<finding("declining", "warning", Null, Null)>>
    ELSE <<>>

\* Score trend: the latest score, the first of scores, against the average
\* of all of them.
scoreTrendInsights(scores) ==
    IF scores[1] * Len(scores) >= sumOf(scores) + LatestPoints * ScoreUnit * Len(scores)
    THEN <<finding("improving", "positive", Null, Null)>>
    ELSE IF scores[1] * Len(scores) < sumOf(scores) - LatestPoints * ScoreUnit * Len(scores)
    THEN <<finding("declining", "warning", Null, Null)>>
    ELSE <<>>

\* getBookmarkInsights(bookmarkId)
getBookmarkInsights(b) ==
    LET scores == Reverse(scoresOf([k \in DOMAIN quizAttemptsAsc(b) |->
                                       quizAttemptsAsc(b)[k].id]))
    IN  IF ~bookmarkExists(b) THEN <<>>
        ELSE IF Len(scores) = 0
        THEN <<finding("no_attempts", "info", Null, Null)>>
        ELSE scoreTrendInsights(scores)
             \o (IF /\ bookmarks[b].lastReviewedAt # Null
                    /\ daysSinceReview(b) > OverdueDays
                 THEN <<finding("overdue", "warning", Null, daysSinceReview(b))>>
                 ELSE <<>>)
             \o (IF weakQuestionCount(b) > 0
                 THEN <<finding("weak_questions", "info", Null, weakQuestionCount(b))>>
                 ELSE <<>>)

(***************************************************************************)
(* The analytics service.  An average that the code rounds with            *)
(* Math.round(x * 100) / 100 is kept in hundredths of a percent; an        *)
(* average that it returns as computed is kept as its sum and its count.   *)
(***************************************************************************)
\* Math.round(x * 100) of x = numerator / (denominator * ScoreUnit) percent.
roundHundredths(numerator, denominator) ==
    (2 * 100 * numerator + denominator * ScoreUnit) \div (2 * denominator * ScoreUnit)

\* The where clause of the due reviews count, with the comparison strict.
countedDueStrict(b) ==
    \/ bookmarks[b].nextReviewAt # Null /\ bookmarks[b].nextReviewAt < now
    \/ bookmarks[b].nextReviewAt = Null /\ bookmarks[b].lastReviewedAt = Null

\* where: OR [nextReviewAt lte now, nextReviewAt null and lastReviewedAt null]
countedDue(b) ==
    \/ bookmarks[b].nextReviewAt # Null /\ bookmarks[b].nextReviewAt <= now
    \/ bookmarks[b].nextReviewAt = Null /\ bookmarks[b].lastReviewedAt = Null

\* The category with the lowest average among names, the first of them in
\* case of equality; best is the lowest so far, <<>> for none.
RECURSIVE lowestCategory(_, _, _)
lowestCategory(names, ids, best) ==
    IF names = <<>> THEN best
    ELSE LET scores == categoryScores(ids, Head(names))
             row == [name |-> Head(names), total |-> sumOf(scores),
                     attempts |-> Len(scores)]
         IN  lowestCategory(Tail(names), ids,
                 IF \/ best = <<>>
                    \/ row.total * best[1].attempts < best[1].total * row.attempts
                 THEN <<row>> ELSE best)

\* A compliance rate that is 0 when no review is scheduled.
complianceRateOfNone(completedReviews, scheduledReviews) ==
    IF scheduledReviews > 0
    THEN (2 * 100 * 100 * completedReviews + scheduledReviews)
         \div (2 * scheduledReviews)
    ELSE 0

\* Math.round(complianceRate * 100) / 100 in hundredths of a percent, where
\* complianceRate is (completedReviews / scheduledReviews) * 100, or 100 when
\* no review is scheduled.
complianceRate(completedReviews, scheduledReviews) ==
    IF scheduledReviews > 0
    THEN (2 * 100 * 100 * completedReviews + scheduledReviews)
         \div (2 * scheduledReviews)
    ELSE 100 * 100

\* getGlobalAnalytics(); foundAttempts is the order in which
\* quizAttempt.findMany, which has no orderBy, returns the attempts.
getGlobalAnalytics(foundAttempts) ==
    LET inThisWeek(i) == attempts[i].attemptedAt >= now - WeekDays * HoursPerDay
        inLastWeek(i) == /\ attempts[i].attemptedAt >= now - FortnightDays * HoursPerDay
                         /\ attempts[i].attemptedAt < now - WeekDays * HoursPerDay
        thisWeek == scoresOf(SelectSeq(foundAttempts, inThisWeek))
        lastWeek == scoresOf(SelectSeq(foundAttempts, inLastWeek))
        scheduledReviews == Cardinality({b \in DOMAIN bookmarks :
                                            bookmarks[b].nextReviewAt # Null})
        completedReviews == Cardinality({b \in DOMAIN bookmarks :
                                            bookmarks[b].lastReviewedAt # Null})
    IN  [totalBookmarks |-> Len(bookmarks),
         totalCategories |-> Cardinality(CategoryIds),
         totalAttempts |-> Len(foundAttempts),
         globalAvgScore |->
             IF Len(foundAttempts) > 0
             THEN roundHundredths(sumOf(scoresOf(foundAttempts)), Len(foundAttempts))
             ELSE 0,
         weakestCategory |->
             lowestCategory(categoryKeys(foundAttempts, {}), foundAttempts, <<>>),
         dueReviewsCount |-> Cardinality({b \in DOMAIN bookmarks : countedDue(b)}),
         improvementTrend |->
             roundHundredths(
                 sumOf(thisWeek) * (IF Len(lastWeek) > 0 THEN Len(lastWeek) ELSE 1)
                 - sumOf(lastWeek) * (IF Len(thisWeek) > 0 THEN Len(thisWeek) ELSE 1),
                 (IF Len(thisWeek) > 0 THEN Len(thisWeek) ELSE 1)
                 * (IF Len(lastWeek) > 0 THEN Len(lastWeek) ELSE 1)),
         reviewComplianceRate |-> complianceRate(completedReviews, scheduledReviews),
         thisWeekAttempts |-> Len(thisWeek),
         lastWeekAttempts |-> Len(lastWeek)]

TrendDays == 30

WeakBookmarkScore == 60

\* The attempts of ids made on the calendar day day: their score sum and
\* their number.
dayRow(ids, day) ==
    LET onDay(i) == DayOf(attempts[i].attemptedAt) = day
    IN  [date |-> day,
         total |-> sumOf(scoresOf(SelectSeq(ids, onDay))),
         attempts |-> Len(SelectSeq(ids, onDay))]

\* One row for each of the last days calendar days, oldest first.
dailyRows(ids, days) ==
    [k \in 1..days |-> dayRow(ids, DayOf(now) - (days - k))]

\* getCategoryAnalytics(categoryId); the result is <<>> for null.
getCategoryAnalytics(categoryId, found) ==
    LET members == bookmarksOfCategory(categoryId, found)
        ids == flatAttempts(members)
        isWeakBookmark(b) ==
            /\ attemptsOf(b) # <<>>
            /\ sumScores(attemptsOf(b)) < WeakBookmarkScore * ScoreUnit * Len(attemptsOf(b))
    IN  IF ~categoryExists(categoryId) THEN <<>>
        ELSE <<[id |-> categoryId,
                totalBookmarks |-> Len(members),
                totalAttempts |-> Len(ids),
                avgScore |-> IF Len(ids) > 0
                             THEN roundHundredths(sumOf(scoresOf(ids)), Len(ids))
                             ELSE 0,
                weakBookmarks |-> SelectSeq(members, isWeakBookmark),
                retentionTrend |-> dailyRows(ids, TrendDays)]>>

\* getPerformanceTrend(days): the attempts since now minus days, grouped by
\* calendar day over the last days days.
getPerformanceTrend(days) ==
    LET since(i) == attempts[i].attemptedAt >= now - days * HoursPerDay
    IN  dailyRows(SelectSeq([i \in DOMAIN attempts |-> i], since), days)

\* The question ids of the answers in the order of their first answer.
RECURSIVE firstAnswered(_, _)
firstAnswered(answers, seen) ==
    IF answers = <<>> THEN <<>>
    ELSE IF Head(answers).questionId \in seen THEN firstAnswered(Tail(answers), seen)
    ELSE <<Head(answers).questionId>>
         \o firstAnswered(Tail(answers), seen \cup {Head(answers).questionId})

questionStat(b, q) ==
    [questionId |-> q,
     correct |-> Cardinality({n \in answersOfBookmark(b) :
                     userAnswers[n].questionId = q /\ userAnswers[n].isCorrect}),
     incorrect |-> Cardinality({n \in answersOfBookmark(b) :
                     userAnswers[n].questionId = q /\ ~userAnswers[n].isCorrect})]

belowHalf(stat) == 2 * stat.correct < stat.correct + stat.incorrect

lowerCorrectRate(a, b) ==
    a.correct * (b.correct + b.incorrect) < b.correct * (a.correct + a.incorrect)

\* getBookmarkAnalytics(bookmarkId), without title and category.
getBookmarkAnalytics(b) ==
    LET asked == firstAnswered(
                     SelectSeq(userAnswers, LAMBDA u : u.attemptId \in attemptIdsOf(b)), {})
        stats == [k \in DOMAIN asked |-> questionStat(b, asked[k])]
    IN  [totalAttempts |-> Len(quizAttemptsAsc(b)),
         avgScore |-> IF attemptsOf(b) # <<>>
                      THEN roundHundredths(sumScores(attemptsOf(b)), Len(attemptsOf(b)))
                      ELSE 0,
         scoreProgression |-> scoreProgression(b),
         lastReviewedAt |-> bookmarks[b].lastReviewedAt,
         nextReviewAt |-> bookmarks[b].nextReviewAt,
         daysSinceLastReview |->
             IF bookmarks[b].lastReviewedAt # Null THEN daysSinceReview(b) ELSE Null,
         totalQuestions |-> Cardinality(ownedQuestions(b)),
         weakQuestions |-> stableSort(SelectSeq(stats, belowHalf), lowerCorrectRate)]

(***************************************************************************)
(* The analytics and the insights over a store with history.  Up to        *)
(* MaxHistory quiz attempts of MaxAnswers answers were submitted, the      *)
(* first ones for bookmark 1 and the others for bookmark 2, spaced by an   *)
(* hour, a day or three days, the last one an hour before the reads; each  *)
(* submission scheduled its bookmark, and each bookmark is in a category   *)
(* or in none.  The reads run on day 20 at 09:00.                          *)
(***************************************************************************)
MaxHistory == 5

InsightsNow == 20 * HoursPerDay + ReviewHour

AttemptGaps == {1, HoursPerDay, 3 * HoursPerDay}

historyAttempts(correct, split, gap) ==
    [k \in DOMAIN correct |->
        [bookmarkId |-> IF k <= split THEN 1 ELSE 2,
         score |-> Score(correct[k], MaxAnswers),
         totalQuestions |-> MaxAnswers,
         attemptedAt |-> InsightsNow - 1 - (Len(correct) - k) * gap]]

\* The schedule left by the bookmark's last submission, if any.
historySchedule(history, b) ==
    LET own == SelectSeq(history, LAMBDA a : a.bookmarkId = b)
        last == own[Len(own)]
    IN  IF own = <<>> THEN [lastReviewedAt |-> Null, nextReviewAt |-> Null]
        ELSE [lastReviewedAt |-> last.attemptedAt,
              nextReviewAt |-> calculateNextReviewDate(last.score, last.attemptedAt)]

InitInsights ==
    \E n \in 0..MaxHistory, gap \in AttemptGaps,
       categoryOf \in [BookmarkIds -> CategoryIds \cup {Uncategorized}] :
        \E correct \in [1..n -> 0..MaxAnswers], split \in 0..n :
            /\ now = InsightsNow
            /\ attempts = historyAttempts(correct, split, gap)
            /\ bookmarks = [b \in BookmarkIds |->
                   [lastReviewedAt |->
                        historySchedule(historyAttempts(correct, split, gap), b).lastReviewedAt,
                    nextReviewAt |->
                        historySchedule(historyAttempts(correct, split, gap), b).nextReviewAt,
                    createdAt |-> b,
                    categoryId |-> categoryOf[b]]]
            /\ questions = snapshotQuestions
            /\ userAnswers = snapshotAnswers(
                   [k \in 1..n |-> [bookmarkId |-> IF k <= split THEN 1 ELSE 2,
                                    correctCount |-> correct[k]]])
            /\ req = [p \in Procs |-> IdleReq]
            /\ out = [op |-> "none"]
            /\ served = 0

\* The orders in which quizAttempt.findMany without orderBy returns the
\* attempts: in creation order and in reverse creation order.
FoundAttemptOrders ==
    {[i \in DOMAIN attempts |-> i], Reverse([i \in DOMAIN attempts |-> i])}

\* The ids a category route is called with: the stored ones and a missing one.
CategoryInputs == CategoryIds \cup {MaxCategories + 1}

BookmarkInputs == BookmarkIds \cup {MaxBookmarks + 1}

\* GET /api/analytics/global; the client may ask again while it holds the
\* previous result.
GetGlobalAnalytics(foundAttempts) ==
    /\ out.op \in {"none", "globalAnalytics"}
    /\ out' = [op |-> "globalAnalytics", result |-> getGlobalAnalytics(foundAttempts)]
    /\ UNCHANGED <<now, store, req, served>>

GetCategoryAnalytics(categoryId, found) ==
    /\ out.op = "none"
    /\ out' = [op |-> "categoryAnalytics", id |-> categoryId,
               result |-> getCategoryAnalytics(categoryId, found)]
    /\ UNCHANGED <<now, store, req, served>>

GetBookmarkAnalytics(b) ==
    /\ out.op = "none"
    /\ out' = [op |-> "getBookmarkAnalytics", id |-> b,
               result |-> IF bookmarkExists(b) THEN <<getBookmarkAnalytics(b)>> ELSE <<>>]
    /\ UNCHANGED <<now, store, req, served>>

GetPerformanceTrend(days) ==
    /\ out.op = "none"
    /\ out' = [op |-> "performanceTrend", days |-> days,
               result |-> getPerformanceTrend(days)]
    /\ UNCHANGED <<now, store, req, served>>

GetInsights(found) ==
    /\ out.op = "none"
    /\ out' = [op |-> "insights", result |-> generateInsights(found),
               emitted |-> emittedInsights(found)]
    /\ UNCHANGED <<now, store, req, served>>

GetCategoryInsights(categoryId, found) ==
    /\ out.op = "none"
    /\ out' = [op |-> "categoryInsights", id |-> categoryId,
               result |-> getCategoryInsights(categoryId, found)]
    /\ UNCHANGED <<now, store, req, served>>

GetBookmarkInsights(b) ==
    /\ out.op = "none"
    /\ out' = [op |-> "bookmarkInsights", id |-> b,
               result |-> getBookmarkInsights(b)]
    /\ UNCHANGED <<now, store, req, served>>

NextInsights ==
    \/ ReadReturn
    \/ \E foundAttempts \in FoundAttemptOrders : GetGlobalAnalytics(foundAttempts)
    \/ \E c \in CategoryInputs, found \in FoundOrders : GetCategoryAnalytics(c, found)
    \/ \E b \in BookmarkInputs : GetBookmarkAnalytics(b)
    \/ GetPerformanceTrend(TrendDays)
    \/ \E found \in FoundOrders : GetInsights(found)
    \/ \E c \in CategoryInputs, found \in FoundOrders : GetCategoryInsights(c, found)
    \/ \E b \in BookmarkInputs : GetBookmarkInsights(b)

SpecInsights == InitInsights /\ [][NextInsights]_vars

\* C14: the due reviews count of globalAnalytics is the number of bookmarks
\* that dueBookmarks lists when its limit cuts nothing, and a bookmark is
\* counted iff it is listed.
C14_DueCountMatchesDueList ==
    out.op = "globalAnalytics" =>
        LET listed == getDueBookmarks(Len(bookmarks))
        IN  /\ out.result.dueReviewsCount = Len(listed)
            /\ \A b \in DOMAIN bookmarks : countedDue(b) <=> inSeq(b, listed)

\* One bookmark falls due at this very instant and is the one counted, the
\* other is scheduled for later.
C14_Witness ==
    /\ out.op = "globalAnalytics"
    /\ out.result.dueReviewsCount = 1
    /\ \E b \in DOMAIN bookmarks : bookmarks[b].nextReviewAt = now
    /\ \E b \in DOMAIN bookmarks : bookmarks[b].nextReviewAt > now

\* The due bookmarks whose nextReviewAt is set and strictly before now.
overdueBookmarks ==
    {b \in DOMAIN bookmarks :
        /\ inSeq(b, getDueBookmarks(Len(bookmarks)))
        /\ bookmarks[b].nextReviewAt # Null
        /\ bookmarks[b].nextReviewAt < now}

\* C15: the missed-reviews finding of insights() counts exactly the due
\* bookmarks whose nextReviewAt is set and strictly before now, lists only
\* such bookmarks, and is absent when there is none.
C15_MissedReviewsAreOverdueDue ==
    out.op = "insights" =>
        /\ \A k \in DOMAIN out.result :
               out.result[k].type = "missed_reviews" =>
                   /\ out.result[k].metric = Cardinality(overdueBookmarks)
                   /\ {out.result[k].bookmarks[j] : j \in DOMAIN out.result[k].bookmarks}
                          = overdueBookmarks
        /\ overdueBookmarks # {} =>
               \E k \in DOMAIN out.result : out.result[k].type = "missed_reviews"

\* One bookmark is a missed review and is listed as due; the other is
\* scheduled for later and is neither.
C15_Witness ==
    /\ out.op = "insights"
    /\ \E k \in DOMAIN out.result :
           /\ out.result[k].type = "missed_reviews"
           /\ out.result[k].metric = 1
           /\ inSeq(out.result[k].bookmarks[1], getDueBookmarks(Len(bookmarks)))
    /\ \E b \in DOMAIN bookmarks : bookmarks[b].nextReviewAt > now

hasWeakCategory(findings, c) ==
    \E k \in DOMAIN findings :
        findings[k].type = "weak_category" /\ findings[k].category = c

\* C16: categoryInsights(id) of a stored category holds the weak_category
\* finding iff insights() holds a weak_category finding for that category.
C16_CategoryAndGlobalWeaknessAgree ==
    (out.op = "categoryInsights" /\ categoryExists(out.id)) =>
        (hasWeakCategory(out.result, out.id)
            <=> hasWeakCategory(generateInsights(bookmarkIdsAsc), out.id))

categoryAttempts(c) ==
    SelectSeq(attempts, LAMBDA a : bookmarks[a.bookmarkId].categoryId = c)

\* C17: insights() holds a weak_category finding, of priority critical, for
\* a category exactly when the category has at least 3 attempts whose
\* average score is below 50, and holds it once.
C17_WeakCategoryNeedsThreeAttempts ==
    out.op = "insights" =>
        \A c \in CategoryIds :
            /\ hasWeakCategory(out.result, c) <=>
                   /\ Len(categoryAttempts(c)) >= 3
                   /\ sumScores(categoryAttempts(c))
                          < 50 * ScoreUnit * Len(categoryAttempts(c))
            /\ \A j, k \in DOMAIN out.result :
                   (/\ out.result[j].type = "weak_category"
                    /\ out.result[j].category = c
                    /\ out.result[k].type = "weak_category"
                    /\ out.result[k].category = c) =>
                       j = k /\ out.result[k].priority = "critical"

\* Category 1 has three attempts averaging below 50 and is reported;
\* category 2 has two attempts without a correct answer and is not.
C17_Witness ==
    /\ out.op = "insights"
    /\ Len(categoryAttempts(1)) = 3
    /\ hasWeakCategory(out.result, 1)
    /\ Len(categoryAttempts(2)) = 2
    /\ sumScores(categoryAttempts(2)) = 0
    /\ ~hasWeakCategory(out.result, 2)

Priorities == <<"critical", "warning", "info", "positive">>

rankOf(priority) == CHOOSE r \in DOMAIN Priorities : Priorities[r] = priority

\* C18: no finding of insights() is followed by one of a higher priority in
\* the order critical, warning, info, positive, and the findings of each
\* priority are the emitted ones of that priority in their emission order.
C18_InsightsSortedStable ==
    out.op = "insights" =>
        /\ \A j, k \in DOMAIN out.result :
               j < k => rankOf(out.result[j].priority) <= rankOf(out.result[k].priority)
        /\ Len(out.result) = Len(out.emitted)
        /\ \A r \in DOMAIN Priorities :
               SelectSeq(out.result, LAMBDA f : f.priority = Priorities[r])
                   = SelectSeq(out.emitted, LAMBDA f : f.priority = Priorities[r])

\* The rules emitted a positive finding before a critical one, and two
\* warnings, so the sort moved findings and had a tie to keep.
C18_Witness ==
    /\ out.op = "insights"
    /\ out.result # out.emitted
    /\ out.emitted[1].priority = "positive"
    /\ out.result[1].priority = "critical"
    /\ \E j, k \in DOMAIN out.result :
           /\ j < k
           /\ out.result[j].priority = "warning"
           /\ out.result[k].priority = "warning"
           /\ out.result[j].type # out.result[k].type

\* The step in which POST /api/quiz/submit answers 200.
SubmitSucceeds(p) ==
    /\ req[p].kind = "quiz"
    /\ req[p].pc = "schedule"
    /\ req'[p].pc = "done"
    /\ req'[p].resp.status = 200

\* C19: when a quiz submission for a bookmark has succeeded, the score
\* progression of the bookmark's analytics has one entry more than the
\* bookmark had attempts before the submission, its dates never decrease
\* (oldest first), and its last entry is the submission's attempt with
\* exactly the score 100 x correct / total; every bookmarkAnalytics read
\* returns that progression and its length as the number of attempts.
C19_SubmitShowsInScoreProgression ==
    [][/\ \A p \in Serial :
              SubmitSucceeds(p) =>
                  LET b == req[p].bookmarkId
                      before == {i \in attemptIdsOf(b) : i < req[p].attemptId}
                      after == scoreProgression(b)'
                  IN  /\ Len(after) = Cardinality(before) + 1
                      /\ \A j, k \in DOMAIN after :
                             j < k => after[j].date <= after[k].date
                      /\ after[Len(after)].id = req[p].attemptId
                      /\ after[Len(after)].score * req'[p].resp.total
                             = 100 * ScoreUnit * req'[p].resp.correct
       /\ \A b \in BookmarkIds :
              (out'.op = "bookmarkAnalytics" /\ out'.bookmarkId = b) =>
              /\ out'.scoreProgression = scoreProgression(b)'
              /\ out'.totalAttempts = Len(attemptsOf(b))'
              /\ \A j, k \in DOMAIN out'.scoreProgression :
                     j < k => /\ out'.scoreProgression[j].date
                                     <= out'.scoreProgression[k].date
                              /\ out'.scoreProgression[j].id
                                     < out'.scoreProgression[k].id
      ]_vars

\* bookmarkAnalytics after two successful submissions of different scores,
\* made at different instants: two entries, the later submission last.
C19_Witness ==
    /\ out.op = "bookmarkAnalytics"
    /\ Len(out.scoreProgression) = 2
    /\ out.scoreProgression[1].date < out.scoreProgression[2].date
    /\ out.scoreProgression[1].score # out.scoreProgression[2].score
    /\ bookmarks[out.bookmarkId].lastReviewedAt = out.scoreProgression[2].date
    /\ bookmarks[out.bookmarkId].nextReviewAt =
           calculateNextReviewDate(out.scoreProgression[2].score,
                                   out.scoreProgression[2].date)

\* The operations of the analytics service and of the insight engine.
ReadOps ==
    {"globalAnalytics", "categoryAnalytics", "getBookmarkAnalytics",
     "performanceTrend", "insights", "categoryInsights", "bookmarkInsights"}

\* C20: a call of globalAnalytics, categoryAnalytics, bookmarkAnalytics,
\* performanceTrend, insights, categoryInsights or bookmarkInsights leaves
\* the bookmarks, questions, attempts and answers as they were, and a second
\* call of globalAnalytics, with no write and no clock change in between,
\* returns what the first returned.
C20_ReadsAreFrameAndRepeatable ==
    [][/\ out'.op \in ReadOps => store' = store
       /\ (out.op = "globalAnalytics" /\ out'.op = "globalAnalytics"
               /\ store' = store /\ now' = now) =>
              out'.result = out.result
      ]_vars

\* The results of the read operations over a store without attempts: average
\* 0, no weakest category and compliance 100 from globalAnalytics, no weakest
\* bookmark, no insight, and a performance trend of days without attempts.
emptyStoreDefaults ==
    /\ getGlobalAnalytics(<<>>).globalAvgScore = 0
    /\ getGlobalAnalytics(<<>>).weakestCategory = <<>>
    /\ getGlobalAnalytics(<<>>).reviewComplianceRate = 100 * 100
    /\ getWeakestBookmarks(MaxBookmarks, bookmarkIdsAsc) = <<>>
    /\ generateInsights(bookmarkIdsAsc) = <<>>
    /\ \A k \in DOMAIN getPerformanceTrend(TrendDays) :
           /\ getPerformanceTrend(TrendDays)[k].attempts = 0
           /\ getPerformanceTrend(TrendDays)[k].total = 0

\* C21: with no attempt stored, globalAnalytics returns average 0, no weakest
\* category and compliance 100, weakestBookmarks and insights return empty
\* lists, performanceTrend returns days without attempts, and bookmarkAnalytics
\* of a bookmark returns average 0, an empty score progression, no weak
\* question and a null daysSinceLastReview.
C21_NoAttemptsDefaults ==
    (out.op = "bookmarkAnalytics" /\ attempts = <<>>) =>
        /\ emptyStoreDefaults
        /\ out.scoreProgression = <<>>
        /\ getBookmarkAnalytics(out.bookmarkId).avgScore = 0
        /\ getBookmarkAnalytics(out.bookmarkId).scoreProgression = <<>>
        /\ getBookmarkAnalytics(out.bookmarkId).weakQuestions = <<>>
        /\ getBookmarkAnalytics(out.bookmarkId).daysSinceLastReview = Null

\* The same over the stores no daily review has touched: a bookmark without
\* attempts was never scheduled.
C21_UnreviewedDefaults ==
    (out.op = "bookmarkAnalytics" /\ attempts = <<>>
        /\ bookmarks[out.bookmarkId].lastReviewedAt = Null) =>
        /\ emptyStoreDefaults
        /\ out.scoreProgression = <<>>
        /\ getBookmarkAnalytics(out.bookmarkId).avgScore = 0
        /\ getBookmarkAnalytics(out.bookmarkId).scoreProgression = <<>>
        /\ getBookmarkAnalytics(out.bookmarkId).weakQuestions = <<>>
        /\ getBookmarkAnalytics(out.bookmarkId).daysSinceLastReview = Null

reviewedBookmarks == {b \in DOMAIN bookmarks : bookmarks[b].lastReviewedAt # Null}

scheduledBookmarks == {b \in DOMAIN bookmarks : bookmarks[b].nextReviewAt # Null}

\* C22: the reviewComplianceRate of globalAnalytics is 100 times the number of
\* bookmarks with a lastReviewedAt over the number of bookmarks with a
\* nextReviewAt, and 100 when no bookmark has a nextReviewAt.
C22_ComplianceRateIsReviewedOverScheduled ==
    out.op = "globalAnalytics" =>
        IF scheduledBookmarks = {}
        THEN out.result.reviewComplianceRate = 100 * 100
        ELSE out.result.reviewComplianceRate * Cardinality(scheduledBookmarks) =
                 100 * 100 * Cardinality(reviewedBookmarks)

\* globalAnalytics was called on a store where one of the two bookmarks was
\* reviewed and scheduled and the other was never reviewed.
C22_Witness ==
    /\ out.op = "globalAnalytics"
    /\ Cardinality(scheduledBookmarks) = 1
    /\ Cardinality(reviewedBookmarks) = 1
    /\ Len(bookmarks) = 2
    /\ out.result.reviewComplianceRate = 100 * 100

(***************************************************************************)
(* checkAnswer on its own: a stored question of any type and correct       *)
(* answer, graded against any submitted answer.  The texts are spelled out *)
(* character by character; they hold upper and lower case, leading,        *)
(* trailing and doubled whitespace, the empty text, words of at most 3     *)
(* characters and words that contain one another.                          *)
(***************************************************************************)
GradedTypes == {"mcq", "short", "scenario", "flashcard"}

CorrectAnswers ==
    {<<"P", "a", "r", "i", "s">>,
     <<" ", "P", "A", "R", "I", "S", "\t">>,
     <<"c", "a", "t">>,
     <<>>,
     <<"t", "h", "e", " ", "s", "u", "n">>,
     <<"M", "i", "t", "o", "c", "h", "o", "n", "d", "r", "i", "a">>,
     <<"c", "e", "l", "l", " ", "m", "e", "m", "b", "r", "a", "n", "e", " ", "w", "a", "l", "l">>,
     <<"L", "i", "g", "h", "t", " ", " ", "r", "e", "a", "c", "t", "i", "o", "n">>}

SelectedAnswers ==
    {<<"p", "a", "r", "i", "s">>,
     <<" ", "P", "a", "r", "i", "s", " ">>,
     <<"P", "A", "R", "I", "S">>,
     <<"R", "o", "m", "e">>,
     <<>>,
     <<" ", "\t">>,
     <<"m", "e", "m", "b", "r", "a", "n", "e">>,
     <<"e", "m", "b", "r">>,
     <<"T", "h", "e", " ", "c", "e", "l", "l", " ", "w", "a", "l", "l">>,
     <<"m", "i", "t", "o", "c", "h", "o", "n", "d", "r", "i", "a", "l", " ", "d", "n", "a">>,
     <<"l", "i", "g", "h", "t">>,
     <<"a">>}

InitGrade ==
    \E type \in GradedTypes, correctAnswer \in CorrectAnswers :
        /\ now = ReviewHour
        /\ bookmarks = <<[lastReviewedAt |-> Null, nextReviewAt |-> Null, createdAt |-> 1]>>
        /\ questions = <<[type |-> type, correctAnswer |-> correctAnswer,
                          exists |-> TRUE, bookmarkId |-> 1]>>
        /\ attempts = <<>>
        /\ userAnswers = <<>>
        /\ req = [p \in Procs |-> IdleReq]
        /\ out = [op |-> "none"]
        /\ served = 0

CheckAnswer(questionId, selectedAnswer) ==
    /\ out.op = "none"
    /\ questionExists(questionId)
    /\ out' = [op |-> "checkAnswer", question |-> questions[questionId],
               selectedAnswer |-> selectedAnswer,
               isCorrect |-> checkAnswer(questions[questionId], selectedAnswer)]
    /\ UNCHANGED <<now, store, req, served>>

NextGrade ==
    \/ ReadReturn
    \/ \E q \in QuestionIds, selectedAnswer \in SelectedAnswers : CheckAnswer(q, selectedAnswer)

SpecGrade == InitGrade /\ [][NextGrade]_vars

\* The text without its leading and trailing whitespace, in lower case.
core(s) ==
    LET inked == {i \in DOMAIN s : ~IsSpace(s[i])}
        first == CHOOSE i \in inked : \A j \in inked : i <= j
        last == CHOOSE i \in inked : \A j \in inked : j <= i
    IN  IF inked = {} THEN <<>>
        ELSE [k \in 1..(last - first + 1) |-> LowerChar(s[first + k - 1])]

\* The whitespace-separated tokens of a text, as the positions of their first
\* and last character.
tokenSpans(s) ==
    {span \in (DOMAIN s) \X (DOMAIN s) :
        /\ span[1] <= span[2]
        /\ \A k \in span[1]..span[2] : ~IsSpace(s[k])
        /\ span[1] = 1 \/ IsSpace(s[span[1] - 1])
        /\ span[2] = Len(s) \/ IsSpace(s[span[2] + 1])}

\* The tokens of a submitted answer; splitting the empty text yields one
\* empty token.
tokensOf(s) ==
    IF s = <<>> THEN {<<>>}
    ELSE {SubSeq(s, span[1], span[2]) : span \in tokenSpans(s)}

keyTermSpans(s) == {span \in tokenSpans(s) : span[2] - span[1] + 1 > 3}

matchedSpans(correct, selected) ==
    {span \in keyTermSpans(correct) :
        \E token \in tokensOf(selected) :
            \/ includes(token, SubSeq(correct, span[1], span[2]))
            \/ includes(SubSeq(correct, span[1], span[2]), token)}

toUpperCase(s) ==
    [i \in DOMAIN s |->
        IF \E k \in DOMAIN LowerChars : LowerChars[k] = s[i]
        THEN UpperChars[CHOOSE k \in DOMAIN LowerChars : LowerChars[k] = s[i]]
        ELSE s[i]]

Paddings == {<<>>, <<" ">>, <<"\t", " ">>}

\* C24: an mcq question is graded correct iff the submitted answer and the
\* correct answer are equal after trimming and lower-casing, and the verdict
\* does not change when the case or the leading and trailing whitespace of
\* either text changes.
C24_McqIgnoresCaseAndPadding ==
    (out.op = "checkAnswer" /\ out.question.type = "mcq") =>
        /\ out.isCorrect <=> core(out.selectedAnswer) = core(out.question.correctAnswer)
        /\ \A before \in Paddings, after \in Paddings :
               /\ checkAnswer(out.question,
                      before \o toUpperCase(out.selectedAnswer) \o after) = out.isCorrect
               /\ checkAnswer(out.question,
                      before \o toLowerCase(out.selectedAnswer) \o after) = out.isCorrect
               /\ checkAnswer(
                      [out.question EXCEPT !.correctAnswer = before \o toUpperCase(@) \o after],
                      out.selectedAnswer) = out.isCorrect

\* " Paris " was graded correct against "Paris", as "paris" is.
C24_Witness ==
    /\ out.op = "checkAnswer"
    /\ out.question.type = "mcq"
    /\ out.question.correctAnswer = Str_Paris
    /\ out.selectedAnswer = <<" ", "P", "a", "r", "i", "s", " ">>
    /\ out.isCorrect
    /\ checkAnswer(out.question, <<"p", "a", "r", "i", "s">>)

\* C29: for a short, scenario or flashcard question with a non-empty correct
\* answer, a submitted answer that is empty or only whitespace is never
\* graded correct.
C29_BlankAnswerNeverCorrect ==
    (/\ out.op = "checkAnswer"
     /\ out.question.type \in {"short", "scenario", "flashcard"}
     /\ out.question.correctAnswer # <<>>
     /\ \A i \in DOMAIN out.selectedAnswer : IsSpace(out.selectedAnswer[i]))
        => ~out.isCorrect

(***************************************************************************)
(* The insights over a long history: bookmark 1 was attempted once a day   *)
(* on a run of up to MaxRun consecutive days ending yesterday, on up to    *)
(* MaxOlder days before a day off that precedes the run, and today or not. *)
(* Every attempt answered everything correctly at 08:00 and scheduled the  *)
(* bookmark; the reads run at 09:00.                                       *)
(***************************************************************************)
MaxRun == 31

MaxOlder == 2

StreakNow == (MaxRun + MaxOlder + 2) * HoursPerDay + ReviewHour

\* The days before today with an attempt, most recent first, as numbers of
\* days back from today.
attemptDaysBack(today, run, older) ==
    (IF today THEN <<0>> ELSE <<>>)
    \o [k \in 1..run |-> k]
    \o [k \in 1..older |-> run + 1 + k]

dailyAttempts(daysBack) ==
    [k \in DOMAIN daysBack |->
        [bookmarkId |-> 1,
         score |-> Score(MaxAnswers, MaxAnswers),
         totalQuestions |-> MaxAnswers,
         attemptedAt |-> StreakNow - 1 - daysBack[Len(daysBack) + 1 - k] * HoursPerDay]]

InitStreak ==
    \E today \in BOOLEAN, run \in 0..MaxRun, older \in 0..MaxOlder :
        LET history == dailyAttempts(attemptDaysBack(today, run, older))
        IN  /\ now = StreakNow
            /\ attempts = history
            /\ bookmarks = [b \in BookmarkIds |->
                   [lastReviewedAt |-> historySchedule(history, b).lastReviewedAt,
                    nextReviewAt |-> historySchedule(history, b).nextReviewAt,
                    createdAt |-> b,
                    categoryId |-> Uncategorized]]
            /\ questions = snapshotQuestions
            /\ userAnswers = snapshotAnswers(
                   [k \in DOMAIN history |-> [bookmarkId |-> 1, correctCount |-> MaxAnswers]])
            /\ req = [p \in Procs |-> IdleReq]
            /\ out = [op |-> "none"]
            /\ served = 0

NextStreak ==
    \/ ReadReturn
    \/ \E found \in FoundOrders : GetInsights(found)

SpecStreak == InitStreak /\ [][NextStreak]_vars

\* The run of consecutive days with an attempt, counted back from today, or
\* from yesterday when today has no attempt.
RECURSIVE runFrom(_)
runFrom(day) ==
    IF day >= 0 /\ hasAttemptOn(day) THEN 1 + runFrom(day - 1) ELSE 0

runLength ==
    IF hasAttemptOn(DayOf(now)) THEN runFrom(DayOf(now)) ELSE runFrom(DayOf(now) - 1)

streakFindings(findings) == SelectSeq(findings, LAMBDA f : f.type = "streak")

\* C25: insights() emits the positive study streak finding iff the run of
\* consecutive days with an attempt, counted back from today or from
\* yesterday when today has none, has at least 3 days, and the finding
\* reports the length of that run.
C25_StreakIsRunLength ==
    out.op = "insights" =>
        /\ Len(streakFindings(out.result)) = (IF runLength >= 3 THEN 1 ELSE 0)
        /\ \A k \in DOMAIN streakFindings(out.result) :
               /\ streakFindings(out.result)[k].priority = "positive"
               /\ streakFindings(out.result)[k].metric = runLength

\* The same for the runs that fit in the 30 days the loop walks.
C25_StreakWithinWindow ==
    (out.op = "insights" /\ runLength + (IF hasAttemptOn(DayOf(now)) THEN 0 ELSE 1) <= StreakDays) =>
        /\ Len(streakFindings(out.result)) = (IF runLength >= 3 THEN 1 ELSE 0)
        /\ \A k \in DOMAIN streakFindings(out.result) :
               /\ streakFindings(out.result)[k].priority = "positive"
               /\ streakFindings(out.result)[k].metric = runLength

(***************************************************************************)
(* The bookmark's insights and analytics over quizzes of the default        *)
(* length: bookmark 1 owns QuizLimit questions and was attempted up to      *)
(* MaxQuizzes times, an hour apart, each attempt answering every question   *)
(* and getting any number of them right; the reads run an hour after the    *)
(* last attempt.                                                            *)
(***************************************************************************)
QuizLimit == 10

MaxQuizzes == 3

quizHistory(correct) ==
    [k \in DOMAIN correct |->
        [bookmarkId |-> 1,
         score |-> Score(correct[k], QuizLimit),
         totalQuestions |-> QuizLimit,
         attemptedAt |-> InsightsNow - 1 - (Len(correct) - k)]]

quizAnswers(correct) ==
    [n \in 1..(Len(correct) * QuizLimit) |->
        LET i == ((n - 1) \div QuizLimit) + 1
            q == ((n - 1) % QuizLimit) + 1
            isCorrect == q <= correct[i]
        IN  [attemptId |-> i, questionId |-> q,
             selectedAnswer |-> IF isCorrect THEN Str_Paris ELSE Str_Rome,
             isCorrect |-> isCorrect]]

InitQuizzes ==
    \E n \in 0..MaxQuizzes :
        \E correct \in [1..n -> 0..QuizLimit] :
            /\ now = InsightsNow
            /\ attempts = quizHistory(correct)
            /\ bookmarks = [b \in BookmarkIds |->
                   [lastReviewedAt |-> historySchedule(quizHistory(correct), b).lastReviewedAt,
                    nextReviewAt |-> historySchedule(quizHistory(correct), b).nextReviewAt,
                    createdAt |-> b,
                    categoryId |-> Uncategorized]]
            /\ questions = [q \in 1..QuizLimit |->
                   [bookmarkId |-> 1, type |-> "mcq",
                    correctAnswer |-> Str_Paris, exists |-> TRUE]]
            /\ userAnswers = quizAnswers(correct)
            /\ req = [p \in Procs |-> IdleReq]
            /\ out = [op |-> "none"]
            /\ served = 0

NextQuizzes ==
    \/ ReadReturn
    \/ \E b \in BookmarkInputs : GetBookmarkAnalytics(b)
    \/ \E b \in BookmarkInputs : GetBookmarkInsights(b)

SpecQuizzes == InitQuizzes /\ [][NextQuizzes]_vars

trendFindings(findings) ==
    SelectSeq(findings, LAMBDA f : f.type \in {"improving", "declining"})

\* The scores of the bookmark's attempts, oldest first, in percent.
percentScores(b) == [k \in DOMAIN attemptsOf(b) |-> attemptsOf(b)[k].score \div ScoreUnit]

C27_ScheduleFieldsSetTogether ==
    /\ \A b \in DOMAIN bookmarks :
           /\ bookmarks[b].lastReviewedAt = Null <=> bookmarks[b].nextReviewAt = Null
           /\ bookmarks[b].nextReviewAt # Null =>
                  bookmarks[b].nextReviewAt > bookmarks[b].lastReviewedAt
    /\ complianceRate(Cardinality(reviewedBookmarks), Cardinality(scheduledBookmarks))
           = 100 * 100

\* A quiz was submitted in the later hour for one bookmark, which has both
\* fields, while the other bookmark was created and never reviewed.
C27_Witness ==
    /\ Len(bookmarks) = 2
    /\ \E b \in DOMAIN bookmarks :
           /\ bookmarks[b].lastReviewedAt = ReviewHour + TickHours
           /\ bookmarks[b].nextReviewAt > now
           /\ attemptsOf(b) # <<>>
    /\ \E b \in DOMAIN bookmarks :
           bookmarks[b].lastReviewedAt = Null /\ bookmarks[b].nextReviewAt = Null

(***************************************************************************)
(* Quiz submissions and the due list over several days.  The store holds   *)
(* MaxBookmarks bookmarks never reviewed, question q owned by bookmark q;  *)
(* one client submits quizzes and reads the due list, and the clock is     *)
(* read at 08:00 and at 09:00 of each day up to day MaxDays, the hour      *)
(* before a review falls due and the hour it does.  No store call fails.   *)
(***************************************************************************)
MaxDays == 6

InitDue ==
    /\ now = ReviewHour
    /\ bookmarks = [b \in BookmarkIds |->
           [lastReviewedAt |-> Null, nextReviewAt |-> Null, createdAt |-> b]]
    /\ questions = [q \in QuestionIds |->
           [bookmarkId |-> ((q - 1) % MaxBookmarks) + 1, type |-> "mcq",
            correctAnswer |-> Str_Paris, exists |-> TRUE]]
    /\ attempts = <<>>
    /\ userAnswers = <<>>
    /\ req = [p \in Procs |-> IdleReq]
    /\ out = [op |-> "none"]
    /\ served = 0

\* The clock moves on to the next 08:00 or 09:00.
AdvanceClock ==
    /\ NothingToDeliver
    /\ now < MaxDays * HoursPerDay + ReviewHour
    /\ now' = IF HourOf(now) = ReviewHour THEN now + HoursPerDay - 1 ELSE now + 1
    /\ UNCHANGED <<store, req, out, served>>

\* One answer array for each score: question 1 answered right, question 1
\* answered wrong, and question 1 answered right with question 2 answered
\* wrong.
ScoredAnswerArrays ==
    {ans \in AnswerArrays :
        /\ ans # <<>>
        /\ ans[1].questionId = 1
        /\ Len(ans) > 1 => /\ ans[1].selectedAnswer # Str_Rome
                           /\ ans[2].selectedAnswer = Str_Rome}

NextDue ==
    \/ \E p \in Serial : Respond(p)
    \/ ReadReturn
    \/ AdvanceClock
    \/ \E p \in Serial, b \in BookmarkIds, ans \in ScoredAnswerArrays : SubmitStart(p, b, ans)
    \/ \E p \in Serial : SubmitCreateAttempt(p)
    \/ \E p \in Serial : SubmitCreateAnswer(p)
    \/ \E p \in Serial : SubmitSchedule(p)
    \/ \E limit \in Limits : GetDueBookmarks(limit)

SpecDue == InitDue /\ [][NextDue]_vars

\* C28: a bookmark scheduled by a quiz submission at time t has a
\* nextReviewAt later than t, whatever the score; it is absent from the due
\* list read at any instant before that nextReviewAt and listed at any
\* instant from nextReviewAt on, until a submission schedules it again.
C28_DueExactlyFromNextReview ==
    /\ \A b \in DOMAIN bookmarks :
           bookmarks[b].lastReviewedAt # Null =>
               /\ bookmarks[b].lastReviewedAt <= now
               /\ bookmarks[b].nextReviewAt > bookmarks[b].lastReviewedAt
    /\ (out.op = "getDueBookmarks" /\ out.limit >= Len(bookmarks)) =>
           \A b \in DOMAIN bookmarks :
               bookmarks[b].lastReviewedAt # Null =>
                   (inSeq(b, out.rows) <=> now >= bookmarks[b].nextReviewAt)

\* The due list is read at the very instant a bookmark's review falls due,
\* and lists it; the bookmark was scheduled by a quiz submission.
C28_Witness ==
    /\ out.op = "getDueBookmarks"
    /\ \E b \in DOMAIN bookmarks :
           /\ attemptsOf(b) # <<>>
           /\ bookmarks[b].nextReviewAt = now
           /\ inSeq(b, out.rows)

\* The due list is read in the hour before a bookmark's review falls due and
\* does not list it.
C28_NotYetDue ==
    /\ out.op = "getDueBookmarks"
    /\ out.limit >= Len(bookmarks)
    /\ \E b \in DOMAIN bookmarks :
           /\ attemptsOf(b) # <<>>
           /\ bookmarks[b].nextReviewAt = now + 1
           /\ ~inSeq(b, out.rows)

\* The results of a daily review that belong to bookmark b, the bookmark's
\* own score, and the bookmarks that own an answered question.
resultsOf(results, b) ==
    SelectSeq(results, LAMBDA x : questions[x.questionId].bookmarkId = b)

ownScore(results, b) ==
    Score(countCorrect(resultsOf(results, b)), Len(resultsOf(results, b)))

reviewedOwners(results) ==
    {questions[results[i].questionId].bookmarkId : i \in DOMAIN results}

DailyStateOk ==
    \A p \in Procs :
        (req[p].pc = "done" /\ req[p].kind = "daily" /\ req[p].resp.status = 200) =>
            /\ req[p].resp.bookmarksReviewed = Cardinality(reviewedOwners(req[p].resp.results))
            /\ \A b \in reviewedOwners(req[p].resp.results) :
                   /\ bookmarks[b].lastReviewedAt # Null
                   /\ bookmarks[b].nextReviewAt =
                          calculateNextReviewDate(ownScore(req[p].resp.results, b),
                                                  bookmarks[b].lastReviewedAt)

DailyStepOk ==
    \A p \in Procs :
        /\ (req[p].pc = "idle" /\ req'[p].kind = "daily") =>
               UNCHANGED <<bookmarks, questions, attempts, userAnswers>>
        /\ (req[p].kind = "daily" /\ req[p].pc = "schedule" /\ req'[p] # req[p]
                /\ req'[p].pc # "failed") =>
               /\ UNCHANGED <<questions, attempts, userAnswers>>
               /\ \A b \in BookmarkIds : quizAttemptsAsc(b)' = quizAttemptsAsc(b)
               /\ \E b \in reviewedOwners(req[p].results) :
                      bookmarks' = [bookmarks EXCEPT ![b] =
                          [@ EXCEPT !.lastReviewedAt = now,
                                    !.nextReviewAt = calculateNextReviewDate(
                                        ownScore(req[p].results, b), now)]]

\* C30: a daily-review submission that completes has scheduled every bookmark
\* that owns an answered, existing question from the bookmark's own score,
\* 100 times its correct answers over its answers; each of its steps changes
\* the schedule of one such bookmark and of no other, and none creates or
\* changes a QuizAttempt or a UserAnswer, so what the analytics read from the
\* attempts is unchanged.
C30_DailyReviewSchedulesOwnersOnly == [](DailyStateOk) /\ [][DailyStepOk]_vars

\* A daily review completed that answered a question of one of two
\* bookmarks: that bookmark is scheduled, the other has no schedule, and no
\* attempt is stored.
C30_Witness ==
    /\ req[1].pc = "done"
    /\ req[1].kind = "daily"
    /\ req[1].resp.status = 200
    /\ req[1].resp.bookmarksReviewed = 1
    /\ Len(bookmarks) = 2
    /\ \E b \in DOMAIN bookmarks : bookmarks[b].lastReviewedAt = now
    /\ \E b \in DOMAIN bookmarks : bookmarks[b].lastReviewedAt = Null
    /\ attempts = <<>>
    /\ userAnswers = <<>>

====
